---- MODULE Spec2Model ----
(***************************************************************************)
(* AcornOS build pipeline: the work/final artifact builders               *)
(* (artifact/rootfs.rs, artifact/squashfs.rs, artifact/initramfs.rs,      *)
(* artifact/iso.rs), the rebuild decision (rebuild.rs), the build command *)
(* that chains them (main.rs), the component executor                     *)
(* (component/executor.rs, component/builder.rs) and the boot test        *)
(* (qemu.rs).                                                             *)
(*                                                                         *)
(* The specifications of the module:                                       *)
(*   Spec          the single-artifact commands over the output directory  *)
(*   SpecBuild     the full build command, up to the ISO, with kills       *)
(*   SpecStore     the full build with outputs deleted between runs and    *)
(*                 brought back from the Artifact Store                    *)
(*   SpecPass      one registry pass of the executor over a staging tree   *)
(*   SpecTwice     two registry passes over the same source tree           *)
(*   SpecAccounts  passes of the components that add users and groups      *)
(*   SpecBins      passes of the components that copy binaries             *)
(*   SpecRegistry  a pass over the registry as definitions.rs declares it  *)
(*   SpecOps       passes of components with one operation of each kind    *)
(*   SpecRuns      the full build command, run after run to its own end    *)
(*   SpecKernel    kernel_needs_compile over the kernel builds there are   *)
(*   SpecBusybox   the busybox download of the initramfs, build on build   *)
(*   SpecCopy      passes that copy binaries onto taken destinations       *)
(*   SpecNetwork   passes of the NETWORK component over a source tree      *)
(*   SpecBoot      the boot test: the watch loop and the verification      *)
(*   SpecParse     extract_library_path on every short line                *)
(***************************************************************************)
EXTENDS Integers, Sequences, FiniteSets, TLC

VARIABLES
    fs,        \* the output directory: one entry per well-known path
    inputs,    \* declared inputs of each artifact kind: a digest, or "unreadable"
    cmd,       \* the command this checkout is driven with, run after run
    pc,        \* position of the running command ("idle": no process)
    ret,       \* result of the build function that ran last: "none", "ok", "err"
    failStage, \* where the last build function failed ("none" if it did not)
    pre,       \* history: the final paths as they were when the attempt started
    gap,       \* history: per kind, a process stopped between artifact and sidecar
    restored,  \* history: what the run took from the Artifact Store
    recorded,  \* history: per kind, a run built the artifact and recorded the
               \* digest of its inputs, and neither has been touched since
    store,     \* the Artifact Store as the running command has it: the warnings
               \* it has printed about it, and what it has put into it
    registry,  \* executor: the components of the pass, in registry order
    source,    \* executor: the paths present in the source tree
    staging,   \* executor: the staging tree, path -> node
    ci,        \* executor: index of the current component
    oi,        \* executor: index of the current operation in it
    pass,      \* executor: "running", "failed", "licenses", "licenses_failed", "done"
    executed,  \* history: the <<component, operation>> indices executed, in order
    errCtx,    \* executor: the context of the error the pass returned
    flushed,   \* executor: how often this pass has flushed the license tracker
    tools,     \* the installer tools built in the workspace, outside the source tree
    ldd,       \* what `ldd` answers for each binary of the source tree
    first,     \* history: how the pass before this one ended, and with which tools
    busybox,   \* initramfs: the busybox download, its cache and the copy in the tree
    boot,      \* qemu: the boot test, its clock and what it has read
    parse      \* executor: a line of ldd output and what was extracted from it

buildVars == <<fs, inputs, cmd, pc, ret, failStage, pre, gap, restored, recorded,
               store>>
passVars  == <<registry, source, staging, ci, oi, pass, executed, errCtx,
               flushed, tools, ldd, first>>
toolVars  == <<busybox, boot, parse>>
vars      == <<buildVars, passVars, toolVars>>

----------------------------------------------------------------------------
(* Files of the output directory *)

Digests == {"dA", "dB"}

\* no command has opened the Artifact Store
NoStore == [warned |-> {}, put |-> {}]

\* no initramfs build has asked for busybox
NoBusybox == <<>>

\* no boot test has been started
NoBoot == <<>>

\* no line of ldd output is being parsed
NoParse == <<>>

\* sizes a producer may leave behind: trivially small, or a real artifact
Sizes == {10, 4096}

\* initramfs.rs:146  fs::metadata(&temp_cpio)?.len() < 1024
MIN_ARTIFACT_SIZE == 1024

\* fresh: written by the build attempt that is running, or that ran last
Absent ==
    [present |-> FALSE, fresh |-> FALSE, whole |-> FALSE, size |-> 0,
     entries |-> FALSE, dig |-> "none"]

\* what a producer has written so far when it is interrupted or fails
Partial ==
    [present |-> TRUE, fresh |-> TRUE, whole |-> FALSE, size |-> 0,
     entries |-> FALSE, dig |-> "none"]

Complete(sz, ent, d) ==
    [present |-> TRUE, fresh |-> TRUE, whole |-> TRUE, size |-> sz,
     entries |-> ent, dig |-> d]

InitFs ==
    [work_staging |-> Absent, work_output |-> Absent,
     final_staging |-> Absent, final_output |-> Absent,
     initramfs_tmp |-> Absent, initramfs_final |-> Absent,
     iso_tmp |-> Absent, iso_final |-> Absent,
     iso_tmp_sum |-> Absent, iso_final_sum |-> Absent,
     squashfs_root |-> Absent, squashfs_work |-> Absent,
     squashfs_final |-> Absent,
     vmlinuz |-> Absent,
     kernel_build |-> Absent, leviso_kernel_build |-> Absent,
     rootfs_hash |-> "missing", initramfs_hash |-> "missing",
     kernel_hash |-> "missing",
     after_iso_final |-> {}]

\* the paths that hold a file or a tree (the others hold a sidecar's text, or
\* the components modified after the final ISO was written: the ISO that is
\* renamed into place was written by the same attempt, after every component)
FilePaths ==
    {"work_staging", "work_output", "final_staging", "final_output",
     "initramfs_tmp", "initramfs_final", "iso_tmp", "iso_final",
     "iso_tmp_sum", "iso_final_sum", "squashfs_root", "squashfs_work",
     "squashfs_final", "vmlinuz", "kernel_build", "leviso_kernel_build"}

\* a file as an attempt that starts now finds it: not of its own writing
Old(f) == [f EXCEPT !.fresh = FALSE]

Aged(dir) ==
    [p \in DOMAIN dir |-> IF p \in FilePaths THEN Old(dir[p]) ELSE dir[p]]

Kinds == {"rootfs", "initramfs"}

ArtifactOf(kind) == IF kind = "rootfs" THEN "final_output" ELSE "initramfs_final"
SidecarOf(kind)  == IF kind = "rootfs" THEN "rootfs_hash" ELSE "initramfs_hash"

----------------------------------------------------------------------------
(* Fingerprint oracle: cache.rs is not among the sources; modelled from    *)
(* section 4.2 of the specification.                                       *)

\* cache::hash_files: a digest of the declared inputs, None when one cannot be read
hash_files(kind) == inputs[kind]

\* cache::needs_rebuild(current_hash, hash_file, artifact)
needs_rebuild(current, sidecar, artifact) ==
    \/ ~artifact.present
    \/ sidecar \notin Digests          \* missing or unreadable
    \/ sidecar # current

\* cache::is_newer(a, b) for b the ISO: a was modified after the ISO was written
is_newer(a, b) == a \in fs.after_iso_final

----------------------------------------------------------------------------
(* rebuild.rs *)

rootfs_needs_rebuild_NoHashSkips ==
    IF ~fs.final_output.present THEN TRUE
    ELSE IF hash_files("rootfs") = "unreadable" THEN FALSE
    ELSE needs_rebuild(hash_files("rootfs"), fs.rootfs_hash, fs.final_output)

rootfs_needs_rebuild ==
    IF ~fs.final_output.present THEN TRUE
    ELSE IF hash_files("rootfs") = "unreadable" THEN TRUE
    ELSE needs_rebuild(hash_files("rootfs"), fs.rootfs_hash, fs.final_output)

initramfs_needs_rebuild_Always == TRUE

initramfs_needs_rebuild ==
    IF ~fs.initramfs_final.present THEN TRUE
    ELSE IF hash_files("initramfs") = "unreadable" THEN TRUE
    ELSE needs_rebuild(hash_files("initramfs"), fs.initramfs_hash, fs.initramfs_final)

iso_needs_rebuild_ExistenceOnly == ~fs.iso_final.present

iso_needs_rebuild_IgnoresNewer ==
    IF ~fs.iso_final.present THEN TRUE
    ELSE \/ ~fs.final_output.present
         \/ ~fs.initramfs_final.present
         \/ ~fs.vmlinuz.present

\* rebuild.rs:155-174
iso_needs_rebuild ==
    IF ~fs.iso_final.present THEN TRUE
    ELSE \/ ~fs.final_output.present
         \/ ~fs.initramfs_final.present
         \/ ~fs.vmlinuz.present
         \/ is_newer("rootfs", "iso")
         \/ is_newer("initramfs", "iso")
         \/ is_newer("kernel", "iso")

\* rebuild.rs:32-73  kernel_needs_compile: with a kernel build of its own, the
\* answer of the oracle; without one, true whether or not LevitateOS has one
kernel_needs_compile ==
    IF fs.kernel_build.present
    THEN IF hash_files("kernel") = "unreadable" THEN TRUE
         ELSE needs_rebuild(hash_files("kernel"), fs.kernel_hash, fs.kernel_build)
    ELSE IF fs.leviso_kernel_build.present THEN TRUE
    ELSE TRUE

----------------------------------------------------------------------------
(* artifact/rootfs.rs: build_rootfs *)

NoPre == [tree |-> Absent, file |-> Absent]

\* the process ends leaving the output directory as `dir`: its locals are gone
Exit(dir) ==
    /\ fs' = Aged(dir)
    /\ pc' = "idle"
    /\ ret' = "none"
    /\ failStage' = "none"
    /\ pre' = NoPre

\* a build function begins: remember the final paths, take the next stamp
Enter(next, finalTree, finalFile) ==
    /\ fs' = Aged(fs)
    /\ pre' = [tree |-> Old(finalTree), file |-> Old(finalFile)]
    /\ ret' = "none"
    /\ failStage' = "none"
    /\ pc' = next

\* rootfs.rs:31-43  check_host_tools()? and the "Rootfs not found" bail
build_rootfs_entry ==
    /\ pc = "rootfs_entry"
    /\ \E ok \in BOOLEAN :
        IF ok
        THEN /\ pc' = "rootfs_clean"
             /\ UNCHANGED <<ret, failStage>>
        ELSE /\ ret' = "err"
             /\ failStage' = "entry"
             /\ pc' = "rootfs_return"
    /\ UNCHANGED <<fs, inputs, pre, gap, cmd, restored, recorded, store, passVars, toolVars>>

\* rootfs.rs:51-54  remove the stale work paths, create the work directory empty
build_rootfs_clean_work ==
    /\ pc = "rootfs_clean"
    /\ fs' = [fs EXCEPT !.work_staging = Partial, !.work_output = Absent]
    /\ pc' = "rootfs_components"
    /\ UNCHANGED <<inputs, ret, failStage, pre, gap, cmd, restored, recorded, store, passVars, toolVars>>

\* rootfs.rs:58-59  BuildContext::new and build_system into the work directory;
\* the tree it leaves has the required entries or not, as the source tree decides
build_rootfs_components ==
    /\ pc = "rootfs_components"
    /\ \/ /\ failStage' = "components"
          /\ pc' = "rootfs_cleanup"
          /\ UNCHANGED fs
       \/ /\ \E ent \in BOOLEAN :
                fs' = [fs EXCEPT !.work_staging =
                          Complete(0, ent, hash_files("rootfs"))]
          /\ pc' = "rootfs_verify"
          /\ UNCHANGED failStage
    /\ UNCHANGED <<inputs, ret, pre, gap, cmd, restored, recorded, store, passVars, toolVars>>

\* rootfs.rs:107-182  verify_staging: every required entry is in the tree
verify_staging(tree) == tree.present /\ tree.entries

\* rootfs.rs:62  verify_staging(&work_staging)?
build_rootfs_verify ==
    /\ pc = "rootfs_verify"
    /\ IF verify_staging(fs.work_staging)
       THEN /\ pc' = "rootfs_erofs"
            /\ UNCHANGED failStage
       ELSE /\ failStage' = "verify"
            /\ pc' = "rootfs_cleanup"
    /\ UNCHANGED <<fs, inputs, ret, pre, gap, cmd, restored, recorded, store, passVars, toolVars>>

\* rootfs.rs:72-78  create_erofs starts writing the work image
build_rootfs_erofs_start ==
    /\ pc = "rootfs_erofs"
    /\ fs' = [fs EXCEPT !.work_output = Partial]
    /\ pc' = "rootfs_erofs_run"
    /\ UNCHANGED <<inputs, ret, failStage, pre, gap, cmd, restored, recorded, store, passVars, toolVars>>

\* rootfs.rs:72-78  create_erofs exits: non-zero with the partial image left,
\* or zero with the image of the work tree written
build_rootfs_erofs_exit ==
    /\ pc = "rootfs_erofs_run"
    /\ \/ /\ failStage' = "erofs"
          /\ pc' = "rootfs_cleanup"
          /\ UNCHANGED fs
       \/ /\ \E sz \in Sizes :
                fs' = [fs EXCEPT !.work_output =
                          Complete(sz, fs.work_staging.entries, fs.work_staging.dig)]
          /\ pc' = "rootfs_rm_final_staging"
          /\ UNCHANGED failStage
    /\ UNCHANGED <<inputs, ret, pre, gap, cmd, restored, recorded, store, passVars, toolVars>>

build_rootfs_cleanup_KeepsWork ==
    /\ pc = "rootfs_cleanup"
    /\ ret' = "err"
    /\ pc' = "rootfs_return"
    /\ UNCHANGED <<fs, inputs, failStage, pre, gap, cmd, restored, recorded, store, passVars, toolVars>>

\* rootfs.rs:83-87  on failure remove both work paths and return the error
build_rootfs_cleanup ==
    /\ pc = "rootfs_cleanup"
    /\ fs' = [fs EXCEPT !.work_staging = Absent, !.work_output = Absent]
    /\ ret' = "err"
    /\ pc' = "rootfs_return"
    /\ UNCHANGED <<inputs, failStage, pre, gap, cmd, restored, recorded, store, passVars, toolVars>>

\* rootfs.rs:91  let _ = fs::remove_dir_all(&final_staging): the tree is
\* removed, or the call fails and its error is dropped
build_rootfs_rm_final_staging ==
    /\ pc = "rootfs_rm_final_staging"
    /\ \/ fs' = [fs EXCEPT !.final_staging = Absent]
       \/ fs.final_staging.present /\ UNCHANGED fs
    /\ pc' = "rootfs_rm_final_output"
    /\ UNCHANGED <<inputs, ret, failStage, pre, gap, cmd, restored, recorded, store, passVars, toolVars>>

\* rootfs.rs:92  let _ = fs::remove_file(&final_output): the image is removed,
\* or the call fails and its error is dropped
build_rootfs_rm_final_output ==
    /\ pc = "rootfs_rm_final_output"
    /\ \/ fs' = [fs EXCEPT !.final_output = Absent]
       \/ fs.final_output.present /\ UNCHANGED fs
    /\ pc' = "rootfs_mv_staging"
    /\ UNCHANGED <<inputs, ret, failStage, pre, gap, cmd, restored, recorded, store, passVars, toolVars>>

\* rootfs.rs:93-94  fs::rename(&work_staging, &final_staging) with context, ?
\* (a directory is not renamed onto a tree that is still there)
build_rootfs_mv_staging ==
    /\ pc = "rootfs_mv_staging"
    /\ \/ /\ ~fs.final_staging.present
          /\ fs' = [fs EXCEPT !.final_staging = fs.work_staging,
                              !.work_staging = Absent]
          /\ pc' = "rootfs_mv_output"
          /\ UNCHANGED <<ret, failStage>>
       \/ /\ ret' = "err"
          /\ failStage' = "rename"
          /\ pc' = "rootfs_return"
          /\ UNCHANGED fs
    /\ UNCHANGED <<inputs, pre, gap, cmd, restored, recorded, store, passVars, toolVars>>

\* rootfs.rs:95-104  fs::rename(&work_output, &final_output) with context, ?; Ok(())
build_rootfs_mv_output ==
    /\ pc = "rootfs_mv_output"
    /\ \/ /\ fs' = [fs EXCEPT !.final_output = fs.work_output,
                              !.work_output = Absent,
                              !.after_iso_final =
                                  IF fs.iso_final.present
                                  THEN @ \cup {"rootfs"} ELSE @]
          /\ ret' = "ok"
          /\ UNCHANGED failStage
       \/ /\ ret' = "err"
          /\ failStage' = "rename"
          /\ UNCHANGED fs
    /\ pc' = "rootfs_return"
    /\ UNCHANGED <<inputs, pre, gap, cmd, restored, recorded, store, passVars, toolVars>>

----------------------------------------------------------------------------
(* artifact/initramfs.rs: build_tiny_initramfs *)

\* initramfs.rs:120-139  clean the build root, directories, busybox, modules, init
build_tiny_initramfs_prepare ==
    /\ pc = "initramfs_prepare"
    /\ \E ok \in BOOLEAN :
        IF ok
        THEN /\ pc' = "initramfs_cpio"
             /\ UNCHANGED <<ret, failStage>>
        ELSE /\ ret' = "err"
             /\ failStage' = "prepare"
             /\ pc' = "initramfs_return"
    /\ UNCHANGED <<fs, inputs, pre, gap, cmd, restored, recorded, store, passVars, toolVars>>

\* initramfs.rs:142-143  build_cpio starts writing the temporary archive
build_tiny_initramfs_cpio_start ==
    /\ pc = "initramfs_cpio"
    /\ fs' = [fs EXCEPT !.initramfs_tmp = Partial]
    /\ pc' = "initramfs_cpio_run"
    /\ UNCHANGED <<inputs, ret, failStage, pre, gap, cmd, restored, recorded, store, passVars, toolVars>>

\* initramfs.rs:143  build_cpio(..)? returns: an error, or Ok with what it wrote
build_tiny_initramfs_cpio_exit ==
    /\ pc = "initramfs_cpio_run"
    /\ \/ /\ ret' = "err"
          /\ failStage' = "cpio"
          /\ pc' = "initramfs_return"
          /\ UNCHANGED fs
       \/ /\ \E sz \in Sizes :
                fs' = [fs EXCEPT !.initramfs_tmp =
                          Complete(sz, FALSE, hash_files("initramfs"))]
          /\ pc' = "initramfs_sanity"
          /\ UNCHANGED <<ret, failStage>>
    /\ UNCHANGED <<inputs, pre, gap, cmd, restored, recorded, store, passVars, toolVars>>

\* initramfs.rs:146  !temp_cpio.exists() || fs::metadata(&temp_cpio)?.len() < 1024
initramfs_invalid(f) == ~f.present \/ f.size < MIN_ARTIFACT_SIZE

\* initramfs.rs:145-148  bail!("Initramfs build produced invalid or empty file")
build_tiny_initramfs_sanity ==
    /\ pc = "initramfs_sanity"
    /\ IF initramfs_invalid(fs.initramfs_tmp)
       THEN /\ ret' = "err"
            /\ failStage' = "sanity"
            /\ pc' = "initramfs_return"
       ELSE /\ pc' = "initramfs_move"
            /\ UNCHANGED <<ret, failStage>>
    /\ UNCHANGED <<fs, inputs, pre, gap, cmd, restored, recorded, store, passVars, toolVars>>

\* initramfs.rs:150-158  atomic_move(&temp_cpio, &output_cpio)?; Ok(())
build_tiny_initramfs_move ==
    /\ pc = "initramfs_move"
    /\ \/ /\ fs' = [fs EXCEPT !.initramfs_final = fs.initramfs_tmp,
                              !.initramfs_tmp = Absent,
                              !.after_iso_final =
                                  IF fs.iso_final.present
                                  THEN @ \cup {"initramfs"} ELSE @]
          /\ ret' = "ok"
          /\ UNCHANGED failStage
       \/ /\ ret' = "err"
          /\ failStage' = "rename"
          /\ UNCHANGED fs
    /\ pc' = "initramfs_return"
    /\ UNCHANGED <<inputs, pre, gap, cmd, restored, recorded, store, passVars, toolVars>>

----------------------------------------------------------------------------
(* artifact/iso.rs: create_squashfs_iso *)

\* iso.rs:120-149  validate_iso_inputs: squashfs, live initramfs, kernel in the rootfs
validate_iso_inputs(kernelInRootfs) ==
    /\ fs.squashfs_final.present
    /\ fs.initramfs_final.present
    /\ kernelInRootfs

\* iso.rs:86-87  Stage 1
create_squashfs_iso_validate ==
    /\ pc = "iso_validate"
    /\ \E kernelInRootfs \in BOOLEAN :
        IF validate_iso_inputs(kernelInRootfs)
        THEN /\ pc' = "iso_stage"
             /\ UNCHANGED <<ret, failStage>>
        ELSE /\ ret' = "err"
             /\ failStage' = "validate"
             /\ pc' = "iso_return"
    /\ UNCHANGED <<fs, inputs, pre, gap, cmd, restored, recorded, store, passVars, toolVars>>

\* iso.rs:89-99  Stages 2-5: live overlay, ISO tree, boot files, UEFI boot
create_squashfs_iso_stage ==
    /\ pc = "iso_stage"
    /\ \E ok \in BOOLEAN :
        IF ok
        THEN /\ pc' = "iso_xorriso"
             /\ UNCHANGED <<ret, failStage>>
        ELSE /\ ret' = "err"
             /\ failStage' = "stage"
             /\ pc' = "iso_return"
    /\ UNCHANGED <<fs, inputs, pre, gap, cmd, restored, recorded, store, passVars, toolVars>>

\* iso.rs:101-103, 565-581  run_xorriso starts writing the temporary ISO
run_xorriso_start ==
    /\ pc = "iso_xorriso"
    /\ fs' = [fs EXCEPT !.iso_tmp = Partial]
    /\ pc' = "iso_xorriso_run"
    /\ UNCHANGED <<inputs, ret, failStage, pre, gap, cmd, restored, recorded, store, passVars, toolVars>>

\* iso.rs:103  run_xorriso(..)? returns: an error, or Ok with what it wrote
run_xorriso_exit ==
    /\ pc = "iso_xorriso_run"
    /\ \/ /\ ret' = "err"
          /\ failStage' = "xorriso"
          /\ pc' = "iso_return"
          /\ UNCHANGED fs
       \/ /\ \E sz \in Sizes :
                fs' = [fs EXCEPT !.iso_tmp = Complete(sz, FALSE, "none")]
          /\ pc' = "iso_checksum"
          /\ UNCHANGED <<ret, failStage>>
    /\ UNCHANGED <<inputs, pre, gap, cmd, restored, recorded, store, passVars, toolVars>>

\* iso.rs:105-106, 584-618  generate_iso_checksum(&temp_iso)?
generate_iso_checksum ==
    /\ pc = "iso_checksum"
    /\ \/ /\ fs' = [fs EXCEPT !.iso_tmp_sum =
                       Complete(0, FALSE, "none")]
          /\ pc' = "iso_rename"
          /\ UNCHANGED <<ret, failStage>>
       \/ /\ ret' = "err"
          /\ failStage' = "checksum"
          /\ pc' = "iso_return"
          /\ UNCHANGED fs
    /\ UNCHANGED <<inputs, pre, gap, cmd, restored, recorded, store, passVars, toolVars>>

\* iso.rs:108-109  fs::rename(&temp_iso, &paths.iso_output)?
create_squashfs_iso_rename ==
    /\ pc = "iso_rename"
    /\ \/ /\ fs' = [fs EXCEPT !.iso_final = fs.iso_tmp, !.iso_tmp = Absent,
                              !.after_iso_final = {}]
          /\ pc' = "iso_rename_sum"
          /\ UNCHANGED <<ret, failStage>>
       \/ /\ ret' = "err"
          /\ failStage' = "rename"
          /\ pc' = "iso_return"
          /\ UNCHANGED fs
    /\ UNCHANGED <<inputs, pre, gap, cmd, restored, recorded, store, passVars, toolVars>>

\* iso.rs:111-117  let _ = fs::rename(&temp_checksum, &final_checksum); Ok(())
create_squashfs_iso_rename_sum ==
    /\ pc = "iso_rename_sum"
    /\ \/ fs' = [fs EXCEPT !.iso_final_sum = fs.iso_tmp_sum, !.iso_tmp_sum = Absent]
       \/ UNCHANGED fs
    /\ ret' = "ok"
    /\ pc' = "iso_return"
    /\ UNCHANGED <<inputs, failStage, pre, gap, cmd, restored, recorded, store, passVars, toolVars>>

----------------------------------------------------------------------------
(* artifact/squashfs.rs: build_squashfs *)

\* squashfs.rs:60  build_squashfs is its own entry point
build_squashfs_start ==
    /\ pc = "idle"
    /\ cmd = "squashfs"
    /\ Enter("squashfs_entry", Absent, fs.squashfs_final)
    /\ UNCHANGED <<inputs, gap, cmd, restored, recorded, store, passVars, toolVars>>

\* squashfs.rs:63-77  check_host_tools()? and the "Rootfs not found" bail
build_squashfs_entry ==
    /\ pc = "squashfs_entry"
    /\ \E ok \in BOOLEAN :
        IF ok
        THEN /\ pc' = "squashfs_components"
             /\ UNCHANGED <<ret, failStage>>
        ELSE /\ ret' = "err"
             /\ failStage' = "entry"
             /\ pc' = "squashfs_return"
    /\ UNCHANGED <<fs, inputs, pre, gap, cmd, restored, recorded, store, passVars, toolVars>>

\* squashfs.rs:79-83  build_system(&ctx)? straight into output/squashfs-root
build_squashfs_components ==
    /\ pc = "squashfs_components"
    /\ \/ /\ fs' = [fs EXCEPT !.squashfs_root = Partial]
          /\ ret' = "err"
          /\ failStage' = "components"
          /\ pc' = "squashfs_return"
       \/ /\ \E ent \in BOOLEAN :
                fs' = [fs EXCEPT !.squashfs_root = Complete(0, ent, "none")]
          /\ pc' = "squashfs_clean"
          /\ UNCHANGED <<ret, failStage>>
    /\ UNCHANGED <<inputs, pre, gap, cmd, restored, recorded, store, passVars, toolVars>>

\* squashfs.rs:89-90  let _ = fs::remove_file(&work_output)
build_squashfs_clean_work ==
    /\ pc = "squashfs_clean"
    /\ fs' = [fs EXCEPT !.squashfs_work = Absent]
    /\ pc' = "squashfs_mksquashfs"
    /\ UNCHANGED <<inputs, ret, failStage, pre, gap, cmd, restored, recorded, store, passVars, toolVars>>

\* squashfs.rs:98, 189-205  mksquashfs starts writing the work image
create_squashfs_internal_start ==
    /\ pc = "squashfs_mksquashfs"
    /\ fs' = [fs EXCEPT !.squashfs_work = Partial]
    /\ pc' = "squashfs_mksquashfs_run"
    /\ UNCHANGED <<inputs, ret, failStage, pre, gap, cmd, restored, recorded, store, passVars, toolVars>>

\* squashfs.rs:98, 205-214  mksquashfs exits
create_squashfs_internal_exit ==
    /\ pc = "squashfs_mksquashfs_run"
    /\ \/ /\ failStage' = "mksquashfs"
          /\ pc' = "squashfs_cleanup"
          /\ UNCHANGED fs
       \/ /\ \E sz \in Sizes :
                fs' = [fs EXCEPT !.squashfs_work =
                          Complete(sz, fs.squashfs_root.entries, "none")]
          /\ pc' = "squashfs_rm_final"
          /\ UNCHANGED failStage
    /\ UNCHANGED <<inputs, ret, pre, gap, cmd, restored, recorded, store, passVars, toolVars>>

\* squashfs.rs:100-104  on failure remove the work file and return the error
build_squashfs_cleanup ==
    /\ pc = "squashfs_cleanup"
    /\ fs' = [fs EXCEPT !.squashfs_work = Absent]
    /\ ret' = "err"
    /\ pc' = "squashfs_return"
    /\ UNCHANGED <<inputs, failStage, pre, gap, cmd, restored, recorded, store, passVars, toolVars>>

\* squashfs.rs:107  let _ = fs::remove_file(&final_output)
build_squashfs_rm_final ==
    /\ pc = "squashfs_rm_final"
    /\ fs' = [fs EXCEPT !.squashfs_final = Absent]
    /\ pc' = "squashfs_rename"
    /\ UNCHANGED <<inputs, ret, failStage, pre, gap, cmd, restored, recorded, store, passVars, toolVars>>

\* squashfs.rs:108-116  fs::rename(&work_output, &final_output)?; Ok(())
build_squashfs_rename ==
    /\ pc = "squashfs_rename"
    /\ \/ /\ fs' = [fs EXCEPT !.squashfs_final = fs.squashfs_work,
                              !.squashfs_work = Absent]
          /\ ret' = "ok"
          /\ UNCHANGED failStage
       \/ /\ ret' = "err"
          /\ failStage' = "rename"
          /\ UNCHANGED fs
    /\ pc' = "squashfs_return"
    /\ UNCHANGED <<inputs, pre, gap, cmd, restored, recorded, store, passVars, toolVars>>

\* build_squashfs has returned; the process ends
build_squashfs_return ==
    /\ pc = "squashfs_return"
    /\ Exit(fs)
    /\ UNCHANGED <<inputs, gap, cmd, restored, recorded, store, passVars, toolVars>>

----------------------------------------------------------------------------
(* main.rs: the build commands *)

Commands == {"build", "rootfs", "initramfs", "squashfs"}

\* main.rs:44-55  open_artifact_store: the store, or None with the warning
\* "Artifact store disabled"
open_artifact_store ==
    {[warned |-> {}, put |-> {}], [warned |-> {"open"}, put |-> {}]}

StoreOpen == "open" \notin store.warned

\* main.rs:185-194  acornos build
cmd_build_start ==
    /\ pc = "idle"
    /\ cmd = "build"
    /\ pc' = "resolve_kernel"
    /\ restored' = {}
    /\ store' \in open_artifact_store
    /\ UNCHANGED <<fs, inputs, ret, failStage, pre, gap, cmd, recorded, passVars, toolVars>>

\* main.rs:311-314  acornos build rootfs
cmd_build_rootfs_start ==
    /\ pc = "idle"
    /\ cmd = "rootfs"
    /\ pc' = "restore"
    /\ restored' = {}
    /\ store' \in open_artifact_store
    /\ UNCHANGED <<fs, inputs, ret, failStage, pre, gap, cmd, recorded, passVars, toolVars>>

\* main.rs:360-363  acornos initramfs
cmd_initramfs_start ==
    /\ pc = "idle"
    /\ cmd = "initramfs"
    /\ pc' = "restore"
    /\ restored' = {}
    /\ store' \in open_artifact_store
    /\ UNCHANGED <<fs, inputs, ret, failStage, pre, gap, cmd, recorded, passVars, toolVars>>

\* the kinds a command builds
KindsOf(c) ==
    IF c = "build" THEN Kinds
    ELSE IF c = "squashfs" THEN {}
    ELSE {c}

\* the components of the ISO modified after an ISO that is there
Touched(dir, u) ==
    IF dir.iso_final.present THEN dir.after_iso_final \cup {u} ELSE dir.after_iso_final

\* main.rs:149-183, 197  resolve_kernel(&base_dir)?: the kernel is there, or
\* the Artifact Store has its payload and puts it into the staging tree, or
\* the command ends with "No kernel available"
resolve_kernel ==
    /\ pc = "resolve_kernel"
    /\ IF fs.vmlinuz.present
       THEN /\ pc' = "restore"
            /\ UNCHANGED <<fs, ret, failStage, pre, restored>>
       ELSE \/ /\ Exit(fs)
               /\ UNCHANGED restored
            \/ /\ pc' = "restore"
               /\ fs' = [fs EXCEPT !.vmlinuz = Old(Complete(4096, FALSE, "none")),
                                   !.after_iso_final = Touched(fs, "kernel")]
               /\ restored' = {"kernel"}
               /\ UNCHANGED <<ret, failStage, pre>>
    /\ UNCHANGED <<inputs, gap, cmd, recorded, store, passVars, toolVars>>

\* artifact_store::try_restore_file_from_key(store, kind, key, out): when the
\* output file is missing and the sidecar holds a digest, the store may hold
\* the artifact of that digest and write it to the output path; what the store
\* holds was put there after a build that returned Ok (main.rs:241-253, 265-279)
try_restore(dir, kind) ==
    IF ~dir[ArtifactOf(kind)].present /\ dir[SidecarOf(kind)] \in Digests
    THEN {dir,
          [dir EXCEPT ![ArtifactOf(kind)] =
                          Old(Complete(4096, kind = "rootfs", dir[SidecarOf(kind)])),
                      !.after_iso_final = Touched(dir, kind)]}
    ELSE {dir}

RECURSIVE restore_all(_, _)
restore_all(dirs, kinds) ==
    IF kinds = {} THEN dirs
    ELSE LET k == CHOOSE x \in kinds : TRUE IN
         restore_all(UNION {try_restore(d, k) : d \in dirs}, kinds \ {k})

restore_outputs_FailureEnds ==
    /\ pc = "restore"
    /\ IF StoreOpen
       THEN \/ \E dir \in restore_all({fs}, KindsOf(cmd)) :
                 /\ fs' = dir
                 /\ restored' = restored \cup
                        {k \in Kinds : dir[ArtifactOf(k)] # fs[ArtifactOf(k)]}
                 /\ pc' = IF cmd = "initramfs" THEN "initramfs_check"
                          ELSE "rootfs_check"
                 /\ UNCHANGED <<store, ret, failStage, pre>>
            \/ /\ store' = [store EXCEPT !.warned = @ \cup {"restore"}]
               /\ Exit(fs)
               /\ UNCHANGED restored
       ELSE /\ pc' = IF cmd = "initramfs" THEN "initramfs_check" ELSE "rootfs_check"
            /\ UNCHANGED <<fs, restored, store, ret, failStage, pre>>
    /\ UNCHANGED <<inputs, gap, cmd, recorded, passVars, toolVars>>

\* main.rs:199-233 (cmd_build), 316-332 (cmd_build_rootfs), 365-381
\* (cmd_initramfs)  the outputs of the command are restored from the store
\* where they can be; a failure to restore is a warning
restore_outputs ==
    /\ pc = "restore"
    /\ IF StoreOpen
       THEN \E dir \in restore_all({fs}, KindsOf(cmd)) :
               /\ fs' = dir
               /\ restored' = restored \cup
                      {k \in Kinds : dir[ArtifactOf(k)] # fs[ArtifactOf(k)]}
               /\ \/ UNCHANGED store
                  \/ /\ \E k \in KindsOf(cmd) : dir[ArtifactOf(k)] = fs[ArtifactOf(k)]
                     /\ store' = [store EXCEPT !.warned = @ \cup {"restore"}]
       ELSE UNCHANGED <<fs, restored, store>>
    /\ pc' = IF cmd = "initramfs" THEN "initramfs_check" ELSE "rootfs_check"
    /\ UNCHANGED <<inputs, ret, failStage, pre, gap, cmd, recorded, passVars, toolVars>>

\* where a command goes after its rootfs step, and after its initramfs step
AfterRootfs == IF cmd = "build" THEN "initramfs_check" ELSE "idle"
AfterInitramfs == IF cmd = "build" THEN "iso_check" ELSE "idle"

\* a step that leaves the output directory as `dir` and hands over to `next`,
\* which may be the end of the command
Goto(next, dir) ==
    IF next = "idle"
    THEN Exit(dir)
    ELSE /\ pc' = next
         /\ fs' = dir
         /\ UNCHANGED <<ret, failStage, pre>>

\* main.rs:236-239 (cmd_build), 334-335 (cmd_build_rootfs)
\*   if rootfs_needs_rebuild(&base_dir) { build_rootfs(&base_dir)?; .. } else { .. }
rootfs_check ==
    /\ pc = "rootfs_check"
    /\ IF rootfs_needs_rebuild
       THEN /\ Enter("rootfs_entry", fs.final_staging, fs.final_output)
            /\ gap' = [gap EXCEPT !.rootfs = FALSE]
            /\ recorded' = [recorded EXCEPT !.rootfs = FALSE]
       ELSE /\ pc' = "rootfs_skip"
            /\ UNCHANGED <<fs, ret, failStage, pre, gap, recorded>>
    /\ UNCHANGED <<inputs, cmd, restored, store, passVars, toolVars>>

\* main.rs:255-257, 350-356  println!("[SKIP] EROFS rootfs already built ..")
rootfs_skip ==
    /\ pc = "rootfs_skip"
    /\ Goto(AfterRootfs, fs)
    /\ gap' = [gap EXCEPT !.rootfs = FALSE]
    /\ UNCHANGED <<inputs, cmd, restored, recorded, store, passVars, toolVars>>

rootfs_return_IgnoresError ==
    /\ pc = "rootfs_return"
    /\ pc' = "cache_rootfs"
    /\ UNCHANGED <<fs, inputs, ret, failStage, pre, gap, cmd, restored, recorded, store, passVars, toolVars>>

\* main.rs:239, 335  acornos::artifact::build_rootfs(&base_dir)?
rootfs_return ==
    /\ pc = "rootfs_return"
    /\ IF ret = "ok" THEN Goto("cache_rootfs", fs) ELSE Exit(fs)
    /\ UNCHANGED <<inputs, gap, cmd, restored, recorded, store, passVars, toolVars>>

\* main.rs:241-253, 265-279, 337-349, 386-401  try_store_file_from_key(store,
\* kind, key, out, ..) with `dir` as the output directory: nothing without a
\* store; else the artifact is put under the digest that the sidecar holds, or
\* the call returns Err and the command prints a warning
try_store(kind, dir) ==
    IF ~StoreOpen THEN {store}
    ELSE {[store EXCEPT !.warned = @ \cup {"store"}]} \cup
         (IF dir[SidecarOf(kind)] \in Digests /\ dir[ArtifactOf(kind)].present
          THEN {[store EXCEPT !.put = @ \cup
                    {[kind |-> kind, key |-> dir[SidecarOf(kind)],
                      dig |-> dir[ArtifactOf(kind)].dig]}]}
          ELSE {store})

\* rebuild.rs:176-197  if let Some(hash) = hash_files(..) { let _ = write_cached_hash(..) }
\* and then the artifact is offered to the store
cache_hash(kind, next) ==
    /\ \/ /\ hash_files(kind) # "unreadable"
          /\ Goto(next, [fs EXCEPT ![SidecarOf(kind)] = hash_files(kind)])
          /\ recorded' = [recorded EXCEPT ![kind] = TRUE]
          /\ store' \in try_store(kind, [fs EXCEPT ![SidecarOf(kind)] = hash_files(kind)])
       \/ /\ Goto(next, fs)
          /\ UNCHANGED recorded
          /\ store' \in try_store(kind, fs)
    /\ UNCHANGED <<inputs, gap, cmd, restored, passVars, toolVars>>

\* main.rs:240, 336, rebuild.rs:176-185
cache_rootfs_hash ==
    /\ pc = "cache_rootfs"
    /\ cache_hash("rootfs", AfterRootfs)

\* main.rs:260-263 (cmd_build), 383-384 (cmd_initramfs)
\*   if initramfs_needs_rebuild(&base_dir) { build_tiny_initramfs(&base_dir)?; .. }
initramfs_check ==
    /\ pc = "initramfs_check"
    /\ IF initramfs_needs_rebuild
       THEN /\ Enter("initramfs_prepare", Absent, fs.initramfs_final)
            /\ gap' = [gap EXCEPT !.initramfs = FALSE]
            /\ recorded' = [recorded EXCEPT !.initramfs = FALSE]
       ELSE /\ pc' = "initramfs_skip"
            /\ UNCHANGED <<fs, ret, failStage, pre, gap, recorded>>
    /\ UNCHANGED <<inputs, cmd, restored, store, passVars, toolVars>>

\* main.rs:282-284, 402-410  println!("[SKIP] Initramfs already built ..")
initramfs_skip ==
    /\ pc = "initramfs_skip"
    /\ Goto(AfterInitramfs, fs)
    /\ gap' = [gap EXCEPT !.initramfs = FALSE]
    /\ UNCHANGED <<inputs, cmd, restored, recorded, store, passVars, toolVars>>

\* main.rs:263, 384  acornos::artifact::build_tiny_initramfs(&base_dir)?
initramfs_return ==
    /\ pc = "initramfs_return"
    /\ IF ret = "ok" THEN Goto("cache_initramfs", fs) ELSE Exit(fs)
    /\ UNCHANGED <<inputs, gap, cmd, restored, recorded, store, passVars, toolVars>>

\* main.rs:264, 385, rebuild.rs:187-197
cache_initramfs_hash ==
    /\ pc = "cache_initramfs"
    /\ cache_hash("initramfs", AfterInitramfs)

\* main.rs:286-290  if iso_needs_rebuild(&base_dir) { create_iso(&base_dir)?; .. }
iso_check ==
    /\ pc = "iso_check"
    /\ IF iso_needs_rebuild
       THEN Enter("iso_validate", Absent, fs.iso_final)
       ELSE /\ pc' = "iso_skip"
            /\ UNCHANGED <<fs, ret, failStage, pre>>
    /\ UNCHANGED <<inputs, gap, cmd, restored, recorded, store, passVars, toolVars>>

\* main.rs:292-308  println!("[SKIP] ISO already built .."); Ok(())
iso_skip ==
    /\ pc = "iso_skip"
    /\ Exit(fs)
    /\ UNCHANGED <<inputs, gap, cmd, restored, recorded, store, passVars, toolVars>>

\* main.rs:290-308  create_iso(&base_dir)?; Ok(())
iso_return ==
    /\ pc = "iso_return"
    /\ Exit(fs)
    /\ UNCHANGED <<inputs, gap, cmd, restored, recorded, store, passVars, toolVars>>

----------------------------------------------------------------------------
(* The world around the process *)

\* the process is killed; what it wrote stays. A kill after the build function
\* returned Ok and before the sidecar is written leaves the gap of section 4.2
Kill ==
    /\ pc # "idle"
    /\ Exit(fs)
    /\ gap' = [k \in Kinds |->
                 \/ gap[k]
                 \/ k = "rootfs" /\ pc \in {"rootfs_return", "cache_rootfs"}
                                 /\ ret = "ok"
                 \/ k = "initramfs" /\ pc \in {"initramfs_return", "cache_initramfs"}
                                    /\ ret = "ok"]
    /\ UNCHANGED <<inputs, cmd, restored, recorded, store, passVars, toolVars>>

\* a declared input is edited, removed or restored, at any time
EnvChangeInputs ==
    /\ \E k \in KindsOf(cmd), d \in Digests \cup {"unreadable"} :
        /\ d # inputs[k]
        /\ inputs' = [inputs EXCEPT ![k] = d]
        /\ recorded' = [recorded EXCEPT ![k] = FALSE]
    /\ UNCHANGED <<fs, pc, ret, failStage, pre, gap, cmd, restored, store, passVars, toolVars>>

\* between runs the user deletes an artifact ("Delete .. to force rebuild",
\* main.rs:352-355, 404-409)
EnvDeleteOutput ==
    /\ pc = "idle"
    /\ \E k \in KindsOf(cmd) :
            /\ fs[ArtifactOf(k)].present
            /\ fs' = [fs EXCEPT ![ArtifactOf(k)] = Absent]
            /\ recorded' = [recorded EXCEPT ![k] = FALSE]
    /\ UNCHANGED <<inputs, pc, ret, failStage, pre, gap, cmd, restored, store, passVars, toolVars>>

\* between runs a sidecar becomes unreadable
EnvSpoilSidecar ==
    /\ pc = "idle"
    /\ \E k \in KindsOf(cmd) :
            /\ fs[SidecarOf(k)] \in Digests
            /\ fs' = [fs EXCEPT ![SidecarOf(k)] = "garbage"]
            /\ recorded' = [recorded EXCEPT ![k] = FALSE]
    /\ UNCHANGED <<inputs, pc, ret, failStage, pre, gap, cmd, restored, store, passVars, toolVars>>

EnvTouchOutput ==
    \/ EnvDeleteOutput
    \/ EnvSpoilSidecar

----------------------------------------------------------------------------
(* Specifications of the build commands *)

\* passes that copy no binary never run ldd
NoLdd == <<>>

\* no pass has ended yet
NoFirst == [pass |-> "none", tree |-> <<>>, tools |-> {}]

\* no pass is running while the build commands are observed
PassIdle ==
    /\ registry = <<>>
    /\ source = {}
    /\ staging = <<>>
    /\ ci = 1
    /\ oi = 1
    /\ pass = "done"
    /\ executed = <<>>
    /\ errCtx = <<>>
    /\ flushed = 0
    /\ tools = {}
    /\ ldd = NoLdd
    /\ first = NoFirst

\* no process, nothing decided
InitProcess ==
    /\ inputs = [k \in Kinds |-> "dA"]
    /\ pc = "idle"
    /\ ret = "none"
    /\ failStage = "none"
    /\ pre = NoPre
    /\ gap = [k \in Kinds |-> FALSE]
    /\ restored = {}
    /\ recorded = [k \in Kinds |-> FALSE]
    /\ store = NoStore
    /\ busybox = NoBusybox
    /\ boot = NoBoot
    /\ parse = NoParse

\* a checkout on which nothing has been built yet, driven with one of the
\* single-artifact commands
Init ==
    /\ cmd \in Commands \ {"build"}
    /\ fs = InitFs
    /\ InitProcess
    /\ PassIdle

Builders ==
    \/ restore_outputs
    \/ rootfs_check
    \/ rootfs_skip
    \/ build_rootfs_entry
    \/ build_rootfs_clean_work
    \/ build_rootfs_components
    \/ build_rootfs_verify
    \/ build_rootfs_erofs_start
    \/ build_rootfs_erofs_exit
    \/ build_rootfs_cleanup
    \/ build_rootfs_rm_final_staging
    \/ build_rootfs_rm_final_output
    \/ build_rootfs_mv_staging
    \/ build_rootfs_mv_output
    \/ rootfs_return
    \/ cache_rootfs_hash
    \/ initramfs_check
    \/ initramfs_skip
    \/ build_tiny_initramfs_prepare
    \/ build_tiny_initramfs_cpio_start
    \/ build_tiny_initramfs_cpio_exit
    \/ build_tiny_initramfs_sanity
    \/ build_tiny_initramfs_move
    \/ initramfs_return
    \/ cache_initramfs_hash

Next ==
    \/ cmd_build_rootfs_start
    \/ cmd_initramfs_start
    \/ Builders
    \/ build_squashfs_start
    \/ build_squashfs_entry
    \/ build_squashfs_components
    \/ build_squashfs_clean_work
    \/ create_squashfs_internal_start
    \/ create_squashfs_internal_exit
    \/ build_squashfs_cleanup
    \/ build_squashfs_rm_final
    \/ build_squashfs_rename
    \/ build_squashfs_return
    \/ Kill
    \/ EnvChangeInputs
    \/ EnvTouchOutput

Spec == Init /\ [][Next]_vars

\* the full build on a checkout whose kernel and squashfs image, made by
\* earlier tools, are there or not
InitBuild ==
    /\ cmd = "build"
    /\ \E k, sq \in BOOLEAN :
        fs = [InitFs EXCEPT
                !.vmlinuz = IF k THEN Old(Complete(4096, FALSE, "none")) ELSE Absent,
                !.squashfs_final =
                    IF sq THEN Old(Complete(4096, TRUE, "none")) ELSE Absent]
    /\ InitProcess
    /\ PassIdle

BuildSteps ==
    \/ cmd_build_start
    \/ resolve_kernel
    \/ Builders
    \/ iso_check
    \/ iso_skip
    \/ create_squashfs_iso_validate
    \/ create_squashfs_iso_stage
    \/ run_xorriso_start
    \/ run_xorriso_exit
    \/ generate_iso_checksum
    \/ create_squashfs_iso_rename
    \/ create_squashfs_iso_rename_sum
    \/ iso_return

NextBuild ==
    \/ BuildSteps
    \/ Kill

SpecBuild == InitBuild /\ [][NextBuild]_vars

\* rebuild.rs:32  a caller asks kernel_needs_compile(base_dir)
kernel_check ==
    /\ pc = "idle"
    /\ cmd = "kernel"
    /\ pc' = "kernel_checked"
    /\ ret' = IF kernel_needs_compile THEN "true" ELSE "false"
    /\ UNCHANGED <<fs, inputs, failStage, pre, gap, cmd, restored, recorded, store,
                   passVars, toolVars>>

\* the caller has its answer
kernel_checked ==
    /\ pc = "kernel_checked"
    /\ Exit(fs)
    /\ UNCHANGED <<inputs, gap, cmd, restored, recorded, store, passVars, toolVars>>

\* a checkout with or without a kernel build of its own, built from inputs of
\* either digest, beside a LevitateOS checkout with or without one; the
\* sidecar of the kernel inputs holds a digest, or text that is none, or is
\* missing
InitKernel ==
    /\ cmd = "kernel"
    /\ \E ours \in {Absent} \cup {Old(Complete(4096, FALSE, d)) : d \in Digests},
          theirs \in {Absent, Old(Complete(4096, FALSE, "none"))},
          h \in Digests \cup {"missing", "garbage"} :
         fs = [InitFs EXCEPT !.kernel_build = ours,
                             !.leviso_kernel_build = theirs,
                             !.kernel_hash = h]
    /\ inputs \in [Kinds \cup {"kernel"} -> Digests \cup {"unreadable"}]
    /\ \A k \in Kinds : inputs[k] = "dA"
    /\ pc = "idle"
    /\ ret = "none"
    /\ failStage = "none"
    /\ pre = NoPre
    /\ gap = [k \in Kinds |-> FALSE]
    /\ restored = {}
    /\ recorded = [k \in Kinds |-> FALSE]
    /\ store = NoStore
    /\ busybox = NoBusybox
    /\ boot = NoBoot
    /\ parse = NoParse
    /\ PassIdle

NextKernel ==
    \/ kernel_check
    \/ kernel_checked

SpecKernel == InitKernel /\ [][NextKernel]_vars

\* the full build, run after run to its own end
SpecRuns == InitBuild /\ [][BuildSteps]_vars

\* the full build, run after run, on a checkout whose outputs the user may
\* delete between runs and the Artifact Store may bring back
NextStore ==
    \/ BuildSteps
    \/ EnvDeleteOutput

SpecStore == InitBuild /\ [][NextStore]_vars

----------------------------------------------------------------------------
(* component/mod.rs, component/definitions.rs: operations and components *)

MaxComponents == 3

\* mod.rs:96-177  enum Op, the variants used by the sample components
Op(kind, path, arg, mode) ==
    [op |-> kind, path |-> path, arg |-> arg, mode |-> mode]

\* mod.rs:225-257, 322-324  the helper constructors
dir(path) == Op("Dir", path, "", "")
write_file(path, content) == Op("WriteFile", path, content, "")
write_file_mode(path, content, mode) == Op("WriteFileMode", path, content, mode)
symlink(link, target) == Op("Symlink", link, target, "")
copy_file(path) == Op("CopyFile", path, "", "")
custom(op) == Op("Custom", "", op, "")
dir_mode(path, mode) == Op("DirMode", path, "", mode)
copy_tree(path) == Op("CopyTree", path, "", "")

\* mod.rs:150-151, 285-287  Op::OpenrcEnable(service, runlevel)
openrc_enable(service, runlevel) ==
    [op |-> "OpenrcEnable", path |-> "", arg |-> service, mode |-> "",
     runlevel |-> runlevel]

\* mod.rs:160-170, 300-319  Op::User and Op::Group; a name is a sequence of
\* characters, home and shell are left out of the line
user(name, uid) ==
    [op |-> "User", path |-> "etc/passwd", arg |-> name, mode |-> "", id |-> uid]
group(name, gid) ==
    [op |-> "Group", path |-> "etc/group", arg |-> name, mode |-> "", id |-> gid]

\* mod.rs:264-282  Op::Bin, Op::Bins and Op::Sbins with their destination
bin(name) == Op("Bin", "usr/bin", name, "")
bins(names) == Op("Bins", "usr/bin", names, "")
sbins(names) == Op("Sbins", "usr/sbin", names, "")

\* definitions.rs:108-152  the first names of the two batches of UTILITIES
ADDITIONAL_BINS == <<"bash", "vim", "less">>
ADDITIONAL_SBINS == <<"openrc", "agetty">>

sshd == <<"s", "s", "h", "d">>
ssh == <<"s", "s", "h">>
chrony == <<"c", "h", "r", "o", "n", "y">>

\* the paths of the staging tree that the sample components touch
Paths ==
    {"etc/init.d", "sbin/init", "etc/shells", "etc/inittab", "etc/passwd",
     "usr/bin/recstrap", "usr/bin/recfstab"}

\* definitions.rs: OPENRC (213-259), SYSCONFIG (448-473) and LIVE_FINAL
\* (496-524), cut down to their operations on the paths above, and two
\* components made for the cases the registry itself does not contain: one that
\* links the init entry point elsewhere, one that copies a file from the source
ComponentNames == {"openrc", "initlink", "sysconfig", "live-final", "accounts"}

ComponentOps(name) ==
    CASE name = "openrc" ->
            <<dir("etc/init.d"), symlink("sbin/init", "/bin/busybox")>>
      [] name = "initlink" ->
            <<symlink("sbin/init", "/sbin/openrc-init")>>
      [] name = "sysconfig" ->
            <<write_file("etc/shells", "SHELLS"),
              write_file_mode("etc/inittab", "BASE_INITTAB", "644")>>
      [] name = "live-final" ->
            <<custom("CopyRecstrap"),
              write_file_mode("etc/inittab", "LIVE_INITTAB", "644")>>
      [] name = "accounts" ->
            <<copy_file("etc/passwd")>>
      [] name = "busybox" ->
            <<bin("busybox")>>
      [] name = "applets" ->
            <<symlink("usr/bin/less", "/bin/busybox")>>
      [] name = "utilities" ->
            <<bins(ADDITIONAL_BINS), sbins(ADDITIONAL_SBINS)>>
      [] name = "ssh" ->
            <<group(sshd, "22"), user(sshd, "22")>>
      [] name = "chrony" ->
            <<group(chrony, "123"), user(chrony, "123")>>
      [] name = "sshd-other-id" ->
            <<group(sshd, "99"), user(sshd, "99")>>
      [] name = "ssh-agent" ->
            <<user(ssh, "23")>>
      [] name = "network" ->
            <<openrc_enable("networking", "boot")>>
      [] name = "network-files" ->
            <<dir("etc/network"),
              write_file("etc/network/interfaces", "NETWORK_INTERFACES"),
              copy_tree("etc/network")>>
      [] name = "hostname-service" ->
            <<openrc_enable("hostname", "boot")>>
      [] name = "runlevel-link" ->
            <<dir("etc/runlevels/boot"),
              symlink("etc/runlevels/boot/networking", "/etc/init.d/other")>>
      [] name = "tmp-dirs" ->
            <<dir("tmp"), dir_mode("tmp", "1777")>>
      [] name = "tmp-private" ->
            <<dir_mode("tmp", "700")>>
      [] name = "eudev" ->
            <<copy_tree("etc/udev")>>
      [] name = "recstrap-dir" ->
            <<dir("usr/bin/recstrap")>>

\* definitions.rs: NETWORK (303-331), OPENRC (243), FILESYSTEM (65-83) and
\* DEVICE_MANAGER (263-273), cut down to one operation of each kind, the copy
\* of a single file, LIVE_FINAL as above, and three components made for the
\* cases the registry does not contain: something else at the path of a
\* run-level link, a directory that is declared again with other permission
\* bits, and a directory where the installer tool is to be written
OpsComponents ==
    {"network", "hostname-service", "runlevel-link", "tmp-dirs", "tmp-private",
     "eudev", "accounts", "live-final", "recstrap-dir"}

OpsPaths ==
    {"etc/runlevels/boot", "etc/runlevels/boot/networking",
     "etc/runlevels/boot/hostname", "tmp", "etc/passwd", "etc/udev",
     "etc/udev/udev.conf", "etc/inittab", "usr/bin/recstrap", "usr/bin/recfstab"}

\* definitions.rs: SSH (335-352) and CHRONY (355-371), cut down to their
\* account operations, and two components made for the cases the registry does
\* not contain: a name that is declared again with another id, and a name
\* that is the beginning of another name
AccountComponents == {"ssh", "chrony", "sshd-other-id", "ssh-agent"}

AccountPaths == {"etc/passwd", "etc/group"}

\* a registry: distinct components in some order
Registries ==
    {r \in UNION {[1..n -> ComponentNames] : n \in 1..MaxComponents} :
        \A i, j \in DOMAIN r : r[i] = r[j] => i = j}

\* the <<component, operation>> positions of a registry in execution order
RECURSIVE Positions(_, _)
Positions(reg, c) ==
    IF c > Len(reg) THEN <<>>
    ELSE [o \in 1..Len(ComponentOps(reg[c])) |-> <<c, o>>] \o Positions(reg, c + 1)

Flat == Positions(registry, 1)

OpAt(k) == ComponentOps(registry[Flat[k][1]])[Flat[k][2]]

----------------------------------------------------------------------------
(* component/executor.rs, component/builder.rs: one registry pass *)

NoNode == [kind |-> "none", content |-> "", mode |-> "", target |-> ""]

DirNode == [kind |-> "dir", content |-> "", mode |-> "755", target |-> ""]

CurrentComponent == registry[ci]

CurrentOp == ComponentOps(CurrentComponent)[oi]

\* executor.rs:30  match op
Running(kind) == pass = "running" /\ CurrentOp.op = kind

Advance_SkipsLicenses ==
    IF oi < Len(ComponentOps(CurrentComponent))
    THEN /\ oi' = oi + 1
         /\ UNCHANGED <<ci, pass>>
    ELSE IF ci < Len(registry)
    THEN /\ ci' = ci + 1
         /\ oi' = 1
         /\ UNCHANGED pass
    ELSE /\ pass' = "done"
         /\ UNCHANGED <<ci, oi>>

\* executor.rs:21-25, builder.rs:46-51  the next operation of the component,
\* else the next component, else the loop is over and the licenses are next
Advance ==
    IF oi < Len(ComponentOps(CurrentComponent))
    THEN /\ oi' = oi + 1
         /\ UNCHANGED <<ci, pass>>
    ELSE IF ci < Len(registry)
    THEN /\ ci' = ci + 1
         /\ oi' = 1
         /\ UNCHANGED pass
    ELSE /\ pass' = "licenses"
         /\ UNCHANGED <<ci, oi>>

\* executor.rs:182, 22  execute_op returned Ok(()) having left the tree as `tree`
Succeed(tree) ==
    /\ staging' = tree
    /\ executed' = Append(executed, <<ci, oi, TRUE>>)
    /\ Advance
    /\ UNCHANGED <<errCtx, registry, source, ldd, flushed, tools, first, buildVars, toolVars>>

Fail_NoContext ==
    /\ pass' = "failed"
    /\ executed' = Append(executed, <<ci, oi, FALSE>>)
    /\ UNCHANGED <<errCtx, staging, ci, oi, registry, source, ldd, flushed, tools, first,
                   buildVars, toolVars>>

Fail_Continues ==
    /\ errCtx' = [component |-> CurrentComponent, op |-> CurrentOp]
    /\ executed' = Append(executed, <<ci, oi, FALSE>>)
    /\ Advance
    /\ UNCHANGED <<staging, registry, source, ldd, flushed, tools, first, buildVars, toolVars>>

\* executor.rs:22  .with_context(|| format!("in component '{}': {:?}", ..))?
\* builder.rs:47  executor::execute(..)?
Fail ==
    /\ pass' = "failed"
    /\ errCtx' = [component |-> CurrentComponent, op |-> CurrentOp]
    /\ executed' = Append(executed, <<ci, oi, FALSE>>)
    /\ UNCHANGED <<staging, ci, oi, registry, source, ldd, flushed, tools, first, buildVars, toolVars>>

\* executor.rs:34-36  Op::Dir: create_dir_all fails on a file; through a link it
\* depends on what the link resolves to
exec_Dir ==
    /\ Running("Dir")
    /\ LET n == staging[CurrentOp.path] IN
        CASE n.kind = "file" -> Fail
          [] n.kind = "link" -> Fail \/ Succeed(staging)
          [] n.kind = "dir" -> Succeed(staging)
          [] OTHER -> Succeed([staging EXCEPT ![CurrentOp.path] = DirNode])

Written_KeepsExisting(n, content) ==
    IF n.kind \in {"link", "file"} THEN n
    ELSE [kind |-> "file", content |-> content, mode |-> "644", target |-> ""]

\* executor.rs:58, 66  fs::write(&full_path, content): creates the file or
\* truncates it, keeping its mode; follows a link at the path
Written(n, content) ==
    IF n.kind = "link" THEN n
    ELSE [kind |-> "file", content |-> content,
          mode |-> IF n.kind = "file" THEN n.mode ELSE "644", target |-> ""]

\* executor.rs:53-59  Op::WriteFile
exec_WriteFile ==
    /\ Running("WriteFile")
    /\ LET n == staging[CurrentOp.path] IN
        IF n.kind = "dir" THEN Fail
        ELSE Succeed([staging EXCEPT ![CurrentOp.path] = Written(n, CurrentOp.arg)])

\* executor.rs:67  fs::set_permissions(&full_path, from_mode(*mode))
WithMode(n, mode) == IF n.kind = "link" THEN n ELSE [n EXCEPT !.mode = mode]

\* executor.rs:61-68  Op::WriteFileMode
exec_WriteFileMode ==
    /\ Running("WriteFileMode")
    /\ LET n == staging[CurrentOp.path] IN
        IF n.kind = "dir" THEN Fail
        ELSE Succeed([staging EXCEPT ![CurrentOp.path] =
                        WithMode(Written(n, CurrentOp.arg), CurrentOp.mode)])

Symlinked_KeepsExisting(n, target) ==
    IF n.kind = "link" THEN n
    ELSE [kind |-> "link", content |-> "", mode |-> "", target |-> target]

\* executor.rs:77-80  whatever is at the link path is removed, then the link is made
Symlinked(n, target) ==
    [kind |-> "link", content |-> "", mode |-> "", target |-> target]

\* executor.rs:70-81  Op::Symlink: remove_file fails on a directory
exec_Symlink ==
    /\ Running("Symlink")
    /\ LET n == staging[CurrentOp.path] IN
        IF n.kind = "dir" THEN Fail
        ELSE Succeed([staging EXCEPT ![CurrentOp.path] = Symlinked(n, CurrentOp.arg)])

FailWith_Continues(tree, names) ==
    /\ staging' = tree
    /\ errCtx' = [component |-> CurrentComponent, op |-> CurrentOp, missing |-> names]
    /\ executed' = Append(executed, <<ci, oi, FALSE>>)
    /\ Advance
    /\ UNCHANGED <<registry, source, ldd, flushed, tools, first, buildVars, toolVars>>

\* executor.rs:87-89, 119-121, 131-133, 22  bail!("file not found: ..") and
\* bail!("Missing binaries: .."): the error names what was not found, and
\* what the operation has written so far is left in the tree
FailWith(tree, names) ==
    /\ pass' = "failed"
    /\ staging' = tree
    /\ errCtx' = [component |-> CurrentComponent, op |-> CurrentOp, missing |-> names]
    /\ executed' = Append(executed, <<ci, oi, FALSE>>)
    /\ UNCHANGED <<ci, oi, registry, source, ldd, flushed, tools, first, buildVars, toolVars>>

exec_CopyFile_SkipsMissing ==
    /\ Running("CopyFile")
    /\ LET n == staging[CurrentOp.path] IN
        IF CurrentOp.path \notin source THEN Succeed(staging)
        ELSE IF n.kind = "dir" THEN Fail
        ELSE Succeed([staging EXCEPT ![CurrentOp.path] =
                        [kind |-> "file", content |-> "SOURCE", mode |-> "644",
                         target |-> ""]])

\* executor.rs:83-95  Op::CopyFile: bail!("file not found: ..") without the
\* source, before anything is created; fs::copy fails onto a directory
exec_CopyFile ==
    /\ Running("CopyFile")
    /\ LET n == staging[CurrentOp.path] IN
        IF CurrentOp.path \notin source THEN FailWith(staging, <<CurrentOp.path>>)
        ELSE IF n.kind = "dir" THEN Fail
        ELSE Succeed([staging EXCEPT ![CurrentOp.path] =
                        [kind |-> "file", content |-> "SOURCE", mode |-> "644",
                         target |-> ""]])

\* context.rs:107-120  find_binary: the first of usr/bin, bin, usr/sbin, sbin
\* that has the name in the source tree, "" when none has
find_binary(name) ==
    LET candidates == <<"usr/bin/" \o name, "bin/" \o name,
                        "usr/sbin/" \o name, "sbin/" \o name>>
    IN IF \E i \in 1..4 : candidates[i] \in source
       THEN candidates[CHOOSE i \in 1..4 :
                          /\ candidates[i] \in source
                          /\ \A j \in 1..(i - 1) : candidates[j] \notin source]
       ELSE ""

\* the entries of the source tree that are links to busybox: its applets
SourceLinks == {"bin/less"}

\* the answers of `ldd <binary>`: it cannot be started, it exits non-zero, it
\* exits zero having printed nothing, it exits zero having printed LddLines
LddOutcomes == {"unavailable", "nonzero", "empty", "libs"}

\* the lines ldd prints for a dynamically linked binary, shortened: the loader
\* without an arrow, a library with its path, a library that was not found;
\* rel is the path the line is about, as the key of the trees
LddLines ==
    <<[text |-> <<"/", "l", " ", "(", "0", ")">>,
       rel |-> "lib/ld-musl-x86_64.so.1"],
      [text |-> <<"n", " ", "=", ">", " ", "/", "n", " ", "(", "0", ")">>,
       rel |-> "usr/lib/libncursesw.so.6"],
      [text |-> <<"f", " ", "=", ">", " ", "n", "o", "t", " ", "f", "o", "u", "n", "d">>,
       rel |-> "not found"]>>

stdout(outcome) == IF outcome = "libs" THEN LddLines ELSE <<>>

\* Option::None of a path
None == <<>>

\* str::find: where the pattern is found first, 0 when nowhere
find(line, pat) ==
    LET at == {i \in 1..(Len(line) - Len(pat) + 1) :
                  SubSeq(line, i, i + Len(pat) - 1) = pat}
    IN  IF at = {} THEN 0 ELSE CHOOSE i \in at : \A j \in at : i <= j

\* str::rfind: where the pattern is found last, 0 when nowhere
rfind(line, pat) ==
    LET at == {i \in 1..(Len(line) - Len(pat) + 1) :
                  SubSeq(line, i, i + Len(pat) - 1) = pat}
    IN  IF at = {} THEN 0 ELSE CHOOSE i \in at : \A j \in at : i >= j

\* executor.rs:280-281  after_arrow.trim().split_whitespace().collect(),
\* parts.first(): the first run of characters that are not white space
first_part(text) ==
    LET black == {i \in DOMAIN text : text[i] # " "} IN
    IF black = {} THEN None
    ELSE LET a == CHOOSE i \in black : \A j \in black : i <= j
             white == {i \in a..Len(text) : text[i] = " "}
             b == IF white = {} THEN Len(text)
                  ELSE (CHOOSE i \in white : \A j \in white : i <= j) - 1
         IN  SubSeq(text, a, b)

extract_library_path_LastArrow(line) ==
    LET arrow_pos == rfind(line, <<"=", ">">>) IN
    IF arrow_pos = 0 THEN None
    ELSE LET after_arrow == SubSeq(line, arrow_pos + 2, Len(line))
             path == first_part(after_arrow)
         IN  IF path # None /\ path[1] = "/" THEN path ELSE None

\* executor.rs:276-288  extract_library_path: the first part after the first
\* "=>" when it starts with "/", else None
extract_library_path(line) ==
    LET arrow_pos == find(line, <<"=", ">">>) IN
    IF arrow_pos = 0 THEN None
    ELSE LET after_arrow == SubSeq(line, arrow_pos + 2, Len(line))
             path == first_part(after_arrow)
         IN  IF path # None /\ path[1] = "/" THEN path ELSE None

\* executor.rs:256-261  the path of a line below the root of the trees, ""
\* for a line without one
rel_path(line) ==
    IF extract_library_path(line.text) = None THEN "" ELSE line.rel

copy_library_deps_FailsOnNonZero(tree, src) ==
    IF ldd[src] \in {"unavailable", "nonzero"} THEN [ok |-> FALSE, tree |-> tree]
    ELSE [ok |-> TRUE,
          tree |-> [p \in DOMAIN tree |->
                     IF /\ \E i \in DOMAIN stdout(ldd[src]) :
                              rel_path(stdout(ldd[src])[i]) = p
                        /\ p \in source
                        /\ tree[p].kind = "none"
                     THEN [kind |-> "file", content |-> p, mode |-> "644",
                           target |-> ""]
                     ELSE tree[p]]]

copy_library_deps_CopiesAlways(tree, src) ==
    IF ldd[src] = "unavailable" THEN [ok |-> FALSE, tree |-> tree]
    ELSE [ok |-> TRUE,
          tree |-> [p \in DOMAIN tree |->
                     IF /\ \E i \in DOMAIN LddLines :
                              rel_path(LddLines[i]) = p
                        /\ p \in source
                        /\ tree[p].kind = "none"
                     THEN [kind |-> "file", content |-> p, mode |-> "644",
                           target |-> ""]
                     ELSE tree[p]]]

\* executor.rs:240-273  copy_library_deps: Err when ldd cannot be run, Ok with
\* nothing copied when it exits non-zero; else every library path of its
\* output that the source tree has and the staging tree has not is copied
copy_library_deps(tree, src) ==
    IF ldd[src] = "unavailable" THEN [ok |-> FALSE, tree |-> tree]
    ELSE IF ldd[src] = "nonzero" THEN [ok |-> TRUE, tree |-> tree]
    ELSE [ok |-> TRUE,
          tree |-> [p \in DOMAIN tree |->
                     IF /\ \E i \in DOMAIN stdout(ldd[src]) :
                              rel_path(stdout(ldd[src])[i]) = p
                        /\ p \in source
                        /\ tree[p].kind = "none"
                     THEN [kind |-> "file", content |-> p, mode |-> "644",
                           target |-> ""]
                     ELSE tree[p]]]

\* executor.rs:219  fs::read_link(&src): where an applet link of the source points
read_link(src) == "/bin/busybox"

\* the permission bits of the binaries in the source tree; one has lost its
\* executable bits
SourceMode(src) == IF src = "usr/bin/vim" THEN "644" ELSE "755"

\* executor.rs:291-296  make_executable: mode | 0o111
make_executable(mode) ==
    CASE mode = "644" -> "755"
      [] mode = "600" -> "711"
      [] mode = "700" -> "711"
      [] OTHER -> mode

copy_binary_NoChmod(tree, name, dest) ==
    LET src == find_binary(name)
        dst == dest \o "/" \o name
    IN IF src = "" \/ tree[dst].kind = "dir"
       THEN [ok |-> FALSE, tree |-> tree]
       ELSE IF src \in SourceLinks
       THEN [ok |-> TRUE,
             tree |-> [tree EXCEPT ![dst] =
                        [kind |-> "link", content |-> "", mode |-> "",
                         target |-> read_link(src)]]]
       ELSE copy_library_deps([tree EXCEPT ![dst] =
                                 [kind |-> "file", content |-> src,
                                  mode |-> SourceMode(src), target |-> ""]], src)

\* executor.rs:188-235  copy_binary: Err without the binary in the source or
\* over a directory; an applet link is made again as a link and nothing more
\* is done; a real binary is copied and made executable, then its libraries
\* are copied, and an Err of that step is returned with the binary in place
copy_binary(tree, name, dest) ==
    LET src == find_binary(name)
        dst == dest \o "/" \o name
    IN IF src = "" \/ tree[dst].kind = "dir"
       THEN [ok |-> FALSE, tree |-> tree]
       ELSE IF src \in SourceLinks
       THEN [ok |-> TRUE,
             tree |-> [tree EXCEPT ![dst] =
                        [kind |-> "link", content |-> "", mode |-> "",
                         target |-> read_link(src)]]]
       ELSE copy_library_deps([tree EXCEPT ![dst] =
                                 [kind |-> "file", content |-> src,
                                  mode |-> make_executable(SourceMode(src)),
                                  target |-> ""]], src)

RECURSIVE copy_batch_StopsAtFirst(_, _, _, _)
copy_batch_StopsAtFirst(tree, names, dest, errors) ==
    IF names = <<>> THEN [tree |-> tree, errors |-> errors]
    ELSE LET r == copy_binary(tree, Head(names), dest) IN
        IF r.ok THEN copy_batch_StopsAtFirst(r.tree, Tail(names), dest, errors)
        ELSE [tree |-> tree, errors |-> <<Head(names)>>]

\* executor.rs:113-118, 125-130  the loop of a batch: every name is tried, the
\* names whose copy returned Err are collected
RECURSIVE copy_batch(_, _, _, _)
copy_batch(tree, names, dest, errors) ==
    IF names = <<>> THEN [tree |-> tree, errors |-> errors]
    ELSE LET r == copy_binary(tree, Head(names), dest) IN
        copy_batch(r.tree, Tail(names), dest,
                   IF r.ok THEN errors ELSE Append(errors, Head(names)))

\* executor.rs:104-106  Op::Bin
exec_Bin ==
    /\ Running("Bin")
    /\ LET r == copy_binary(staging, CurrentOp.arg, CurrentOp.path) IN
        IF r.ok THEN Succeed(r.tree)
        ELSE IF r.tree = staging THEN Fail
        ELSE FailWith(r.tree, <<>>)

\* executor.rs:112-134  Op::Bins and Op::Sbins
exec_Bins ==
    /\ Running("Bins") \/ Running("Sbins")
    /\ LET r == copy_batch(staging, CurrentOp.arg, CurrentOp.path, <<>>) IN
        IF r.errors = <<>> THEN Succeed(r.tree) ELSE FailWith(r.tree, r.errors)

\* str::lines: the text cut at every "\n"; a last line needs no terminator
RECURSIVE lines(_)
lines(content) ==
    IF content = <<>> THEN <<>>
    ELSE IF \E i \in DOMAIN content : content[i] = "\n"
    THEN LET i == CHOOSE i \in DOMAIN content :
                    /\ content[i] = "\n"
                    /\ \A j \in 1..(i - 1) : content[j] # "\n"
         IN <<SubSeq(content, 1, i - 1)>> \o lines(SubSeq(content, i + 1, Len(content)))
    ELSE <<content>>

\* str::starts_with
starts_with(line, prefix) ==
    /\ Len(prefix) <= Len(line)
    /\ SubSeq(line, 1, Len(prefix)) = prefix

\* executor.rs:402, 434  content.lines().any(|line| line.starts_with("{name}:"))
has_entry(content, name) ==
    \E i \in DOMAIN lines(content) : starts_with(lines(content)[i], name \o <<":">>)

\* executor.rs:417  writeln!(file, "{}:x:{}:{}::{}:{}", ..), up to the user id
passwd_line(name, uid) == name \o <<":", "x", ":", uid>>

\* executor.rs:449  writeln!(file, "{}:x:{}:", name, gid)
group_line(name, gid) == name \o <<":", "x", ":", gid, ":">>

ensure_entry_AlwaysAppends(content, name, line) == content \o line \o <<"\n">>

\* executor.rs:401-419, 433-451  return early when a line of the name is there,
\* else open the file for appending and write the line
ensure_entry(content, name, line) ==
    IF has_entry(content, name) THEN content ELSE content \o line \o <<"\n">>

\* executor.rs:395-399, 427-431  the text of the account file, empty without one
read_accounts(n) == IF n.kind = "file" THEN n.content ELSE <<>>

\* executor.rs:412-415  OpenOptions::new().create(true).append(true): an
\* existing file keeps its mode
appended(n, content) ==
    [kind |-> "file", content |-> content,
     mode |-> IF n.kind = "file" THEN n.mode ELSE "644", target |-> ""]

\* the account file after ensure_user or ensure_group: untouched on the early return
ensured(n, name, line) ==
    LET content == ensure_entry(read_accounts(n), name, line) IN
        IF content = read_accounts(n) THEN n ELSE appended(n, content)

\* executor.rs:160-168, 383-420  Op::User, ensure_user: read_to_string fails on
\* a directory
exec_User ==
    /\ Running("User")
    /\ LET n == staging[CurrentOp.path] IN
        IF n.kind = "dir" THEN Fail
        ELSE Succeed([staging EXCEPT ![CurrentOp.path] =
                        ensured(n, CurrentOp.arg, passwd_line(CurrentOp.arg, CurrentOp.id))])

\* executor.rs:170-172, 422-452  Op::Group, ensure_group
exec_Group ==
    /\ Running("Group")
    /\ LET n == staging[CurrentOp.path] IN
        IF n.kind = "dir" THEN Fail
        ELSE Succeed([staging EXCEPT ![CurrentOp.path] =
                        ensured(n, CurrentOp.arg, group_line(CurrentOp.arg, CurrentOp.id))])

\* live.rs:102-106, 173-177  the release binaries of the installer tools in the
\* workspace around the project (recchroot is looked up like recfstab)
ToolNames == {"recstrap", "recfstab"}

\* live.rs:115-117, 165-167, 182-184  a file written or copied, then set to 0o755
Installed(content) ==
    [kind |-> "file", content |-> content, mode |-> "755", target |-> ""]

copy_recstrap_Stamped(tree) ==
    [p \in DOMAIN tree |->
        IF p = "usr/bin/recstrap"
        THEN Installed(<<"PLACEHOLDER", first.pass>>)
        ELSE tree[p]]

\* live.rs:98-192  copy_recstrap: the recstrap binary when one has been built,
\* else a placeholder script; the other tools only when they have been built
copy_recstrap(tree) ==
    [p \in DOMAIN tree |->
        IF p = "usr/bin/recstrap"
        THEN Installed(IF "recstrap" \in tools THEN "RECSTRAP" ELSE "PLACEHOLDER")
        ELSE IF p = "usr/bin/recfstab" /\ "recfstab" \in tools
        THEN Installed("RECFSTAB")
        ELSE tree[p]]

\* executor.rs:177-179, custom/mod.rs:74  Op::Custom(CopyRecstrap)
exec_Custom ==
    /\ Running("Custom")
    /\ CurrentOp.arg = "CopyRecstrap"
    /\ IF staging["usr/bin/recstrap"].kind = "dir"
       THEN Fail
       ELSE IF "recfstab" \in tools /\ staging["usr/bin/recfstab"].kind = "dir"
       THEN FailWith([copy_recstrap(staging) EXCEPT
                         !["usr/bin/recfstab"] = staging["usr/bin/recfstab"]], <<>>)
       ELSE Succeed(copy_recstrap(staging))

\* builder.rs:50-59  tracker.copy_licenses(&ctx.source, &ctx.staging)?, the
\* summary, Ok(()): the one flush of the license tracker, which can fail
copy_licenses ==
    /\ pass = "licenses"
    /\ flushed' = flushed + 1
    /\ pass' \in {"done", "licenses_failed"}
    /\ UNCHANGED <<registry, source, ldd, staging, ci, oi, executed, errCtx, tools,
                   first, buildVars, toolVars>>

\* builder.rs:36-44, 65-77  build_system: prepare_staging leaves the staging
\* tree empty; the source tree has the file to copy or not
InitPass ==
    /\ registry \in Registries
    /\ source \in SUBSET {"etc/passwd"}
    /\ staging = [p \in Paths |-> NoNode]
    /\ ci = 1
    /\ oi = 1
    /\ pass = "running"
    /\ executed = <<>>
    /\ errCtx = [component |-> "", op |-> ""]
    /\ flushed = 0
    /\ tools \in SUBSET ToolNames
    /\ ldd = NoLdd
    /\ first = NoFirst
    /\ cmd = "rootfs"
    /\ fs = [InitFs EXCEPT !.work_staging = Partial]
    /\ inputs = [k \in Kinds |-> "dA"]
    /\ pc = "rootfs_components"
    /\ ret = "none"
    /\ failStage = "none"
    /\ pre = NoPre
    /\ gap = [k \in Kinds |-> FALSE]
    /\ restored = {}
    /\ recorded = [k \in Kinds |-> FALSE]
    /\ store = NoStore
    /\ busybox = NoBusybox
    /\ boot = NoBoot
    /\ parse = NoParse

NextPass ==
    \/ exec_Dir
    \/ exec_WriteFile
    \/ exec_WriteFileMode
    \/ exec_Symlink
    \/ exec_CopyFile
    \/ exec_Custom
    \/ copy_licenses

SpecPass == InitPass /\ [][NextPass]_vars

\* builder.rs:36-44  build_system is called again, over the same source tree and
\* into a fresh staging tree; the workspace around it may have changed meanwhile
build_system_again ==
    /\ pass \in {"done", "failed", "licenses_failed"}
    /\ first = NoFirst
    /\ first' = [pass |-> pass, tree |-> staging, tools |-> tools]
    /\ tools' \in SUBSET ToolNames
    /\ staging' = [p \in Paths |-> NoNode]
    /\ ci' = 1
    /\ oi' = 1
    /\ pass' = "running"
    /\ executed' = <<>>
    /\ errCtx' = [component |-> "", op |-> ""]
    /\ flushed' = 0
    /\ UNCHANGED <<registry, source, ldd, buildVars, toolVars>>

\* builder.rs:36-44  a pass over components that declare accounts, any of them
\* any number of times, into a fresh staging tree
InitAccounts ==
    /\ registry \in UNION {[1..n -> AccountComponents] : n \in 1..MaxComponents}
    /\ source = {}
    /\ staging = [p \in AccountPaths |-> NoNode]
    /\ ci = 1
    /\ oi = 1
    /\ pass = "running"
    /\ executed = <<>>
    /\ errCtx = [component |-> "", op |-> ""]
    /\ flushed = 0
    /\ tools = {}
    /\ ldd = NoLdd
    /\ first = NoFirst
    /\ cmd = "rootfs"
    /\ fs = [InitFs EXCEPT !.work_staging = Partial]
    /\ inputs = [k \in Kinds |-> "dA"]
    /\ pc = "rootfs_components"
    /\ ret = "none"
    /\ failStage = "none"
    /\ pre = NoPre
    /\ gap = [k \in Kinds |-> FALSE]
    /\ restored = {}
    /\ recorded = [k \in Kinds |-> FALSE]
    /\ store = NoStore
    /\ busybox = NoBusybox
    /\ boot = NoBoot
    /\ parse = NoParse

NextAccounts ==
    \/ exec_User
    \/ exec_Group
    \/ copy_licenses

SpecAccounts == InitAccounts /\ [][NextAccounts]_vars

\* the places of the source tree where the binaries of the model can be
BinarySources ==
    {"bin/busybox", "bin/bash", "usr/bin/vim", "bin/less", "usr/bin/less",
     "sbin/openrc", "sbin/agetty"}

BinaryPaths ==
    {"usr/bin/busybox", "usr/bin/bash", "usr/bin/vim", "usr/bin/less",
     "usr/sbin/openrc", "usr/sbin/agetty"}

\* the libraries of the source tree that ldd can name
LibraryPaths == {"lib/ld-musl-x86_64.so.1", "usr/lib/libncursesw.so.6"}

\* builder.rs:36-44  a pass over BUSYBOX and UTILITIES, or UTILITIES alone, into
\* a fresh staging tree, over a source tree with any of the binaries
InitBins ==
    /\ registry \in {<<"busybox", "utilities">>, <<"utilities">>}
    /\ source \in SUBSET (BinarySources \cup {"usr/lib/libncursesw.so.6"})
    /\ staging = [p \in BinaryPaths \cup LibraryPaths |-> NoNode]
    /\ ci = 1
    /\ oi = 1
    /\ pass = "running"
    /\ executed = <<>>
    /\ errCtx = [component |-> "", op |-> ""]
    /\ flushed = 0
    /\ tools = {}
    /\ ldd \in [BinarySources -> LddOutcomes]
    /\ \/ \A b \in BinarySources : ldd[b] = "unavailable"
       \/ \A b \in BinarySources :
             /\ ldd[b] # "unavailable"
             /\ (b \notin source \/ b \in SourceLinks) => ldd[b] = "nonzero"
    /\ first = NoFirst
    /\ cmd = "rootfs"
    /\ fs = [InitFs EXCEPT !.work_staging = Partial]
    /\ inputs = [k \in Kinds |-> "dA"]
    /\ pc = "rootfs_components"
    /\ ret = "none"
    /\ failStage = "none"
    /\ pre = NoPre
    /\ gap = [k \in Kinds |-> FALSE]
    /\ restored = {}
    /\ recorded = [k \in Kinds |-> FALSE]
    /\ store = NoStore
    /\ busybox = NoBusybox
    /\ boot = NoBoot
    /\ parse = NoParse

NextBins ==
    \/ exec_Bin
    \/ exec_Bins
    \/ copy_licenses

SpecBins == InitBins /\ [][NextBins]_vars

\* builder.rs:36-44  a pass in which the destination of a binary is taken
\* when the binary is copied: by an applet link made before UTILITIES, or by
\* the copy of a first UTILITIES; every binary is statically linked
InitCopy ==
    /\ registry \in {<<"applets", "utilities">>, <<"utilities", "utilities">>,
                      <<"busybox", "applets", "utilities">>}
    /\ source \in SUBSET BinarySources
    /\ staging = [p \in BinaryPaths \cup LibraryPaths |-> NoNode]
    /\ ci = 1
    /\ oi = 1
    /\ pass = "running"
    /\ executed = <<>>
    /\ errCtx = [component |-> "", op |-> ""]
    /\ flushed = 0
    /\ tools = {}
    /\ ldd = [b \in BinarySources |-> "nonzero"]
    /\ first = NoFirst
    /\ cmd = "rootfs"
    /\ fs = [InitFs EXCEPT !.work_staging = Partial]
    /\ inputs = [k \in Kinds |-> "dA"]
    /\ pc = "rootfs_components"
    /\ ret = "none"
    /\ failStage = "none"
    /\ pre = NoPre
    /\ gap = [k \in Kinds |-> FALSE]
    /\ restored = {}
    /\ recorded = [k \in Kinds |-> FALSE]
    /\ store = NoStore
    /\ busybox = NoBusybox
    /\ boot = NoBoot
    /\ parse = NoParse

NextCopy ==
    \/ exec_Symlink
    \/ exec_Bin
    \/ exec_Bins
    \/ copy_licenses

SpecCopy == InitCopy /\ [][NextCopy]_vars

\* builder.rs:17-26  the phases in their order (Phase is declared in
\* distro_builder; the numbers are those of the build_system documentation)
PhaseNumber(phase) ==
    CASE phase = "Filesystem" -> 1
      [] phase = "Binaries" -> 2
      [] phase = "Init" -> 3
      [] phase = "MessageBus" -> 4
      [] phase = "Services" -> 5
      [] phase = "Config" -> 6
      [] phase = "Packages" -> 7
      [] phase = "Firmware" -> 8
      [] phase = "Final" -> 9

\* n operations of one kind
Times(n, kind) == [i \in 1..n |-> kind]

\* definitions.rs:65-524  the thirteen components as declared: name, phase and
\* the kinds of their operations in list order
Declared(name) ==
    CASE name = "filesystem" ->
            [phase |-> "Filesystem",
             ops |-> <<"Dirs", "Custom", "DirMode", "DirMode", "DirMode", "Custom">>]
      [] name = "busybox" ->
            [phase |-> "Binaries", ops |-> <<"Bin", "Custom">>]
      [] name = "utilities" ->
            [phase |-> "Binaries", ops |-> <<"Bins", "Sbins">>]
      [] name = "openrc" ->
            [phase |-> "Init",
             ops |-> <<"Dir", "Dir", "Dirs", "Symlink", "CopyTree", "CopyTree",
                       "OpenrcScripts">> \o Times(19, "OpenrcEnable")]
      [] name = "eudev" ->
            [phase |-> "Init", ops |-> <<"CopyTree", "CopyTree", "Custom">>]
      [] name = "modules" ->
            [phase |-> "Init", ops |-> <<"Custom">>]
      [] name = "network" ->
            [phase |-> "Services",
             ops |-> Times(5, "Dir") \o <<"WriteFile", "CopyTree", "OpenrcEnable",
                                          "OpenrcEnable", "OpenrcConf", "Dir">>]
      [] name = "ssh" ->
            [phase |-> "Services",
             ops |-> <<"Dir", "DirMode", "DirMode", "CopyTree", "Group", "User">>]
      [] name = "chrony" ->
            [phase |-> "Services",
             ops |-> <<"Dir", "Dir", "CopyTree", "Group", "User">>]
      [] name = "branding" ->
            [phase |-> "Config", ops |-> Times(5, "WriteFile") \o <<"Custom", "Custom">>]
      [] name = "sysconfig" ->
            [phase |-> "Config",
             ops |-> <<"WriteFile", "WriteFile", "WriteFileMode", "Custom">>]
      [] name = "firmware" ->
            [phase |-> "Firmware", ops |-> <<"Custom", "Custom">>]
      [] name = "live-final" ->
            [phase |-> "Final", ops |-> <<"Custom", "Custom", "Custom", "WriteFileMode">>]

ALL_COMPONENTS_FirmwareFirst ==
    <<"filesystem", "firmware", "busybox", "utilities", "openrc", "eudev",
      "modules", "network", "ssh", "chrony", "branding", "sysconfig", "live-final">>

\* definitions.rs:533-554
ALL_COMPONENTS ==
    <<"filesystem", "busybox", "utilities", "openrc", "eudev", "modules",
      "network", "ssh", "chrony", "branding", "sysconfig", "firmware", "live-final">>

\* builder.rs:36-48  build_system over the registry as declared
InitRegistry ==
    /\ registry = ALL_COMPONENTS
    /\ source = {}
    /\ staging = <<>>
    /\ ci = 1
    /\ oi = 1
    /\ pass = "running"
    /\ executed = <<>>
    /\ errCtx = [component |-> "", op |-> ""]
    /\ flushed = 0
    /\ tools = {}
    /\ ldd = NoLdd
    /\ first = NoFirst
    /\ cmd = "rootfs"
    /\ fs = [InitFs EXCEPT !.work_staging = Partial]
    /\ inputs = [k \in Kinds |-> "dA"]
    /\ pc = "rootfs_components"
    /\ ret = "none"
    /\ failStage = "none"
    /\ pre = NoPre
    /\ gap = [k \in Kinds |-> FALSE]
    /\ restored = {}
    /\ recorded = [k \in Kinds |-> FALSE]
    /\ store = NoStore
    /\ busybox = NoBusybox
    /\ boot = NoBoot
    /\ parse = NoParse

\* builder.rs:46-48, executor.rs:21-23  the next operation of the declared
\* registry returns Ok or Err, whatever it does to the tree; after the last
\* one of a component the next component, after the last component the licenses
execute_declared ==
    /\ pass = "running"
    /\ LET ops == Declared(registry[ci]).ops IN
         \/ /\ pass' = "failed"
            /\ errCtx' = [component |-> registry[ci], op |-> ops[oi]]
            /\ UNCHANGED <<ci, oi>>
         \/ /\ IF oi < Len(ops)
               THEN /\ oi' = oi + 1
                    /\ UNCHANGED <<ci, pass>>
               ELSE IF ci < Len(registry)
               THEN /\ ci' = ci + 1
                    /\ oi' = 1
                    /\ UNCHANGED pass
               ELSE /\ pass' = "licenses"
                    /\ UNCHANGED <<ci, oi>>
            /\ UNCHANGED errCtx
    /\ UNCHANGED <<registry, source, ldd, staging, executed, flushed, tools, first,
                   buildVars, toolVars>>

NextRegistry ==
    \/ execute_declared
    \/ copy_licenses

SpecRegistry == InitRegistry /\ [][NextRegistry]_vars

NextTwice ==
    \/ NextPass
    \/ build_system_again

SpecTwice == InitPass /\ [][NextTwice]_vars

LinkTo(target) == [kind |-> "link", content |-> "", mode |-> "", target |-> target]

enable_openrc_service_OnlyInNewDir(tree, service, runlevel) ==
    LET runlevel_dir == "etc/runlevels/" \o runlevel
        link == runlevel_dir \o "/" \o service
    IN  IF tree[runlevel_dir].kind \in {"file", "link"}
        THEN [ok |-> FALSE, tree |-> tree]
        ELSE IF tree[runlevel_dir].kind = "none"
        THEN [ok |-> TRUE,
              tree |-> [tree EXCEPT ![runlevel_dir] = DirNode,
                                    ![link] = LinkTo("/etc/init.d/" \o service)]]
        ELSE [ok |-> TRUE, tree |-> tree]

\* executor.rs:344-356  enable_openrc_service: the run-level directory is
\* created, and the link to the init script is made unless something, a
\* dangling link included, is at its path
enable_openrc_service(tree, service, runlevel) ==
    LET runlevel_dir == "etc/runlevels/" \o runlevel
        link == runlevel_dir \o "/" \o service
        target == "/etc/init.d/" \o service
        made == IF tree[runlevel_dir].kind = "none"
                THEN [tree EXCEPT ![runlevel_dir] = DirNode] ELSE tree
    IN  IF tree[runlevel_dir].kind \in {"file", "link"}
        THEN [ok |-> FALSE, tree |-> tree]
        ELSE IF made[link].kind = "none"
        THEN [ok |-> TRUE,
              tree |-> [made EXCEPT ![link] = LinkTo(target)]]
        ELSE [ok |-> TRUE, tree |-> made]

\* executor.rs:139-141  Op::OpenrcEnable
exec_OpenrcEnable ==
    /\ Running("OpenrcEnable")
    /\ LET r == enable_openrc_service(staging, CurrentOp.arg, CurrentOp.runlevel) IN
        IF r.ok THEN Succeed(r.tree) ELSE Fail

exec_DirMode_KeepsExisting ==
    /\ Running("DirMode")
    /\ LET n == staging[CurrentOp.path] IN
        CASE n.kind = "file" -> Fail
          [] n.kind \in {"link", "dir"} -> Succeed(staging)
          [] OTHER ->
                Succeed([staging EXCEPT ![CurrentOp.path] =
                            WithMode(DirNode, CurrentOp.mode)])

\* executor.rs:38-42  Op::DirMode: create_dir_all, then set_permissions on the
\* path; create_dir_all fails on a file
exec_DirMode ==
    /\ Running("DirMode")
    /\ LET n == staging[CurrentOp.path] IN
        CASE n.kind = "file" -> Fail
          [] n.kind = "link" -> Fail \/ Succeed(staging)
          [] n.kind = "dir" ->
                Succeed([staging EXCEPT ![CurrentOp.path] = WithMode(n, CurrentOp.mode)])
          [] OTHER ->
                Succeed([staging EXCEPT ![CurrentOp.path] =
                            WithMode(DirNode, CurrentOp.mode)])

\* the entries of the source tree below a path
Below(path) ==
    IF path = "etc/udev" THEN {"etc/udev/udev.conf"} \cap source
    ELSE IF path = "etc/network" THEN {"etc/network/interfaces"} \cap source
    ELSE {}

copy_tree_to_KeepsExisting(tree, path) ==
    IF path \notin source THEN [ok |-> TRUE, tree |-> tree]
    ELSE IF tree[path].kind \in {"file", "link"} THEN [ok |-> FALSE, tree |-> tree]
    ELSE [ok |-> TRUE,
          tree |-> [p \in DOMAIN tree |->
                      IF p = path /\ tree[p].kind = "none" THEN DirNode
                      ELSE IF p \in Below(path) /\ tree[p].kind = "none"
                      THEN [kind |-> "file", content |-> "SOURCE", mode |-> "644",
                            target |-> ""]
                      ELSE tree[p]]]

copy_tree_to_Required(tree, path) ==
    IF path \notin source \/ tree[path].kind \in {"file", "link"}
    THEN [ok |-> FALSE, tree |-> tree]
    ELSE [ok |-> TRUE,
          tree |-> [p \in DOMAIN tree |->
                      IF p = path /\ tree[p].kind = "none" THEN DirNode
                      ELSE IF p \in Below(path)
                      THEN [kind |-> "file", content |-> "SOURCE", mode |-> "644",
                            target |-> ""]
                      ELSE tree[p]]]

\* executor.rs:303-339  copy_tree: without the source a warning and Ok(());
\* else the directory is created and every file below the source copied
copy_tree_to(tree, path) ==
    IF path \notin source THEN [ok |-> TRUE, tree |-> tree]
    ELSE IF tree[path].kind \in {"file", "link"} THEN [ok |-> FALSE, tree |-> tree]
    ELSE [ok |-> TRUE,
          tree |-> [p \in DOMAIN tree |->
                      IF p = path /\ tree[p].kind = "none" THEN DirNode
                      ELSE IF p \in Below(path)
                      THEN [kind |-> "file", content |-> "SOURCE", mode |-> "644",
                            target |-> ""]
                      ELSE tree[p]]]

\* executor.rs:97-99  Op::CopyTree
exec_CopyTree ==
    /\ Running("CopyTree")
    /\ LET r == copy_tree_to(staging, CurrentOp.path) IN
        IF r.ok THEN Succeed(r.tree) ELSE Fail

\* builder.rs:36-44, 65-77  build_system over components listed in any order
\* and any number of times, into a fresh staging tree; the source tree has
\* the single file and the optional configuration tree, or has not
InitOps ==
    /\ registry \in UNION {[1..n -> OpsComponents] : n \in 1..MaxComponents}
    /\ source \in {src \in SUBSET {"etc/passwd", "etc/udev", "etc/udev/udev.conf"} :
                      "etc/udev/udev.conf" \in src => "etc/udev" \in src}
    /\ staging = [p \in OpsPaths |-> NoNode]
    /\ ci = 1
    /\ oi = 1
    /\ pass = "running"
    /\ executed = <<>>
    /\ errCtx = [component |-> "", op |-> ""]
    /\ flushed = 0
    /\ tools = {}
    /\ ldd = NoLdd
    /\ first = NoFirst
    /\ cmd = "rootfs"
    /\ fs = [InitFs EXCEPT !.work_staging = Partial]
    /\ inputs = [k \in Kinds |-> "dA"]
    /\ pc = "rootfs_components"
    /\ ret = "none"
    /\ failStage = "none"
    /\ pre = NoPre
    /\ gap = [k \in Kinds |-> FALSE]
    /\ restored = {}
    /\ recorded = [k \in Kinds |-> FALSE]
    /\ store = NoStore
    /\ busybox = NoBusybox
    /\ boot = NoBoot
    /\ parse = NoParse

\* how many times the parts of NETWORK are listed in one pass
MaxNetworkParts == 3

\* the paths of the staging tree that NETWORK writes
NetworkPaths ==
    {"etc/network", "etc/network/interfaces", "etc/runlevels/boot",
     "etc/runlevels/boot/networking"}

\* builder.rs:36-44  a pass over the two parts of NETWORK (definitions.rs:
\* 303-332: its operations on etc/network, its service-enable), in any order
\* and also twice, into a fresh staging tree; the source tree has etc/network
\* with or without the interfaces file, or has not
InitNetwork ==
    /\ registry \in UNION {[1..n -> {"network-files", "network"}] : n \in 1..MaxNetworkParts}
    /\ source \in {src \in SUBSET {"etc/network", "etc/network/interfaces"} :
                      "etc/network/interfaces" \in src => "etc/network" \in src}
    /\ staging = [p \in NetworkPaths |-> NoNode]
    /\ ci = 1
    /\ oi = 1
    /\ pass = "running"
    /\ executed = <<>>
    /\ errCtx = [component |-> "", op |-> ""]
    /\ flushed = 0
    /\ tools = {}
    /\ ldd = NoLdd
    /\ first = NoFirst
    /\ cmd = "rootfs"
    /\ fs = [InitFs EXCEPT !.work_staging = Partial]
    /\ inputs = [k \in Kinds |-> "dA"]
    /\ pc = "rootfs_components"
    /\ ret = "none"
    /\ failStage = "none"
    /\ pre = NoPre
    /\ gap = [k \in Kinds |-> FALSE]
    /\ restored = {}
    /\ recorded = [k \in Kinds |-> FALSE]
    /\ store = NoStore
    /\ busybox = NoBusybox
    /\ boot = NoBoot
    /\ parse = NoParse

NextNetwork ==
    \/ exec_Dir
    \/ exec_WriteFile
    \/ exec_CopyTree
    \/ exec_OpenrcEnable
    \/ copy_licenses

SpecNetwork == InitNetwork /\ [][NextNetwork]_vars

NextOps ==
    \/ exec_Dir
    \/ exec_DirMode
    \/ exec_Symlink
    \/ exec_CopyFile
    \/ exec_CopyTree
    \/ exec_OpenrcEnable
    \/ exec_WriteFileMode
    \/ exec_Custom
    \/ copy_licenses

SpecOps == InitOps /\ [][NextOps]_vars

----------------------------------------------------------------------------
(* Properties of the artifact builders and of the rebuild decision *)

RootfsSteps ==
    {"rootfs_entry", "rootfs_clean", "rootfs_components", "rootfs_verify",
     "rootfs_erofs", "rootfs_erofs_run", "rootfs_cleanup",
     "rootfs_rm_final_staging", "rootfs_rm_final_output",
     "rootfs_mv_staging", "rootfs_mv_output", "rootfs_return"}

\* C1: if a complete rootfs image was at the final path when build_rootfs
\* started, then at every step of the attempt, wherever it is interrupted or
\* fails, the final path holds a complete image, the old one or the new one.
C1_FinalImageSurvivesAttempt ==
    (pc \in RootfsSteps /\ pre.file.present /\ pre.file.whole)
        => (fs.final_output.present /\ fs.final_output.whole)

C3_SmallFileLeavesNoWork ==
    (pc = "initramfs_return" /\ failStage = "sanity")
        => /\ ret = "err"
           /\ fs.initramfs_final = pre.file
           /\ ~fs.initramfs_tmp.present

\* C4: whatever a builder has renamed onto a final path came from a producer
\* that succeeded and passed the sanity check: a tree has the required
\* entries, a file has a non-trivial size.
C4_PromotedAfterSanity ==
    /\ fs.final_staging.present
          => (fs.final_staging.whole /\ fs.final_staging.entries)
    /\ fs.final_output.present => fs.final_output.whole
    /\ fs.initramfs_final.present
          => (fs.initramfs_final.whole /\ fs.initramfs_final.size >= MIN_ARTIFACT_SIZE)
    /\ fs.iso_final.present
          => (fs.iso_final.whole /\ fs.iso_final.size >= MIN_ARTIFACT_SIZE)

\* the step of a command at which the sidecar of a kind is written
CacheStep(kind) == IF kind = "rootfs" THEN "cache_rootfs" ELSE "cache_initramfs"

\* C5: a step writes a digest into the sidecar of a kind only when the build
\* function of that kind has returned success in this run and the artifact it
\* made is at the final path; after a failed build no step does.
C5_SidecarOnlyAfterSuccess ==
    [][\A k \in Kinds :
          (fs'[SidecarOf(k)] # fs[SidecarOf(k)] /\ fs'[SidecarOf(k)] \in Digests)
              => /\ pc = CacheStep(k)
                 /\ ret = "ok"
                 /\ fs[ArtifactOf(k)].present
                 /\ fs[ArtifactOf(k)].whole
                 /\ fs[ArtifactOf(k)].fresh]_vars

\* a run has built the rootfs image and recorded the digest of its inputs
C5_Witness ==
    /\ pc = "idle"
    /\ fs.rootfs_hash \in Digests
    /\ fs.final_output.present

\* C6: when a process stopped after the artifact was put in place and before
\* the sidecar was written, the next rebuild decision for that kind is to
\* rebuild: no command skips the build over such a gap.
C6_GapForcesRebuild ==
    /\ pc = "rootfs_skip" => ~gap.rootfs
    /\ pc = "initramfs_skip" => ~gap.initramfs

\* the artifact is there and the sidecar holds the digest of the current inputs
UpToDate(kind) ==
    /\ fs[ArtifactOf(kind)].present
    /\ fs[SidecarOf(kind)] \in Digests
    /\ fs[SidecarOf(kind)] = inputs[kind]

----------------------------------------------------------------------------
(* Properties of a registry pass *)

SymlinksAt(p) ==
    {k \in 1..Len(Flat) : OpAt(k).op = "Symlink" /\ OpAt(k).path = p}

WritesAt(p) ==
    {k \in 1..Len(Flat) :
        OpAt(k).op \in {"WriteFile", "WriteFileMode"} /\ OpAt(k).path = p}

Last(S) == CHOOSE k \in S : \A j \in S : j <= k

\* C9: when two components create a symlink at the same path with different
\* targets, after a full successful pass the link points to the target of the
\* later one.
C9_LaterSymlinkWins ==
    pass = "done" =>
        \A p \in Paths : \A a, b \in SymlinksAt(p) :
            (a < b /\ b = Last(SymlinksAt(p)) /\ OpAt(a).arg # OpAt(b).arg)
                => (staging[p].kind = "link" /\ staging[p].target = OpAt(b).arg)

\* openrc ran after the other component that links sbin/init
C9_Witness ==
    /\ pass = "done"
    /\ \E a, b \in SymlinksAt("sbin/init") : a < b /\ OpAt(b).arg = "/bin/busybox"
    /\ staging["sbin/init"].target = "/bin/busybox"

\* the position of a component in the registry, 0 when it is not in it
IndexOf(name) ==
    IF \E i \in DOMAIN registry : registry[i] = name
    THEN CHOOSE i \in DOMAIN registry : registry[i] = name
    ELSE 0

\* C10: for a path written by more than one file-write operation, the content
\* after a full successful pass is that of the last of them in registry
\* order; etc/inittab, written by sysconfig and then by live-final, ends with
\* the live content.
C10_LastWriteWins ==
    pass = "done" =>
        /\ \A p \in Paths :
              Cardinality(WritesAt(p)) > 1
                  => /\ staging[p].kind = "file"
                     /\ staging[p].content = OpAt(Last(WritesAt(p))).arg
        /\ (IndexOf("sysconfig") > 0 /\ IndexOf("sysconfig") < IndexOf("live-final"))
              => staging["etc/inittab"].content = "LIVE_INITTAB"

\* sysconfig and then live-final have written etc/inittab
C10_Witness ==
    /\ pass = "done"
    /\ IndexOf("sysconfig") > 0
    /\ IndexOf("sysconfig") < IndexOf("live-final")
    /\ staging["etc/inittab"].content = "LIVE_INITTAB"

\* the pass before this one and this one have both run to their successful end
BothDone == first.pass = "done" /\ pass = "done"

C14_FlushedOnceAtEnd ==
    /\ flushed \in {0, 1}
    /\ pass = "done" => flushed = 1
    /\ flushed = 1
          => /\ Len(executed) = Len(Flat)
             /\ \A k \in 1..Len(executed) : executed[k][3]
    /\ pass \in {"running", "licenses", "failed"} => flushed = 0

\* a pass over three components has ended with the tracker flushed
C14_Witness ==
    /\ pass = "done"
    /\ flushed = 1
    /\ Len(registry) = MaxComponents

\* the executed positions of the operations of a kind that name an account
Upserts(kind, name) ==
    {k \in 1..Len(executed) :
        executed[k][3] /\ OpAt(k).op = kind /\ OpAt(k).arg = name}

\* the lines of an account file that begin with "name:"
EntriesOf(path, name) ==
    LET L == lines(read_accounts(staging[path])) IN
        {i \in DOMAIN L : starts_with(L[i], name \o <<":">>)}

AccountNames == {sshd, ssh, chrony}

First(S) == CHOOSE k \in S : \A j \in S : k <= j

\* C12: however often and in whatever order users and groups are upserted,
\* each account file holds exactly one line for every name that was upserted
\* and none for the others, and that line is the one the first upsert of the
\* name appended: a later upsert of the name, even with another id, adds no
\* line and rewrites none.
C12_UpsertOncePerName ==
    \A name \in AccountNames :
        /\ Cardinality(EntriesOf("etc/passwd", name))
              = (IF Upserts("User", name) = {} THEN 0 ELSE 1)
        /\ Cardinality(EntriesOf("etc/group", name))
              = (IF Upserts("Group", name) = {} THEN 0 ELSE 1)
        /\ Upserts("User", name) # {}
              => \E i \in EntriesOf("etc/passwd", name) :
                    lines(staging["etc/passwd"].content)[i]
                        = passwd_line(name, OpAt(First(Upserts("User", name))).id)
        /\ Upserts("Group", name) # {}
              => \E i \in EntriesOf("etc/group", name) :
                    lines(staging["etc/group"].content)[i]
                        = group_line(name, OpAt(First(Upserts("Group", name))).id)

\* sshd was upserted twice, the second time with another id, and chrony once:
\* two lines in the user file, sshd with its first id
C12_Witness ==
    /\ pass = "done"
    /\ Cardinality(Upserts("User", sshd)) = 2
    /\ Cardinality(Upserts("User", chrony)) = 1
    /\ Len(lines(staging["etc/passwd"].content)) = 2
    /\ \E k \in Upserts("User", sshd) : OpAt(k).id = "99" /\ k > First(Upserts("User", sshd))
    /\ lines(staging["etc/passwd"].content)[1] = passwd_line(sshd, "22")

\* the names of a batch that are nowhere in the source tree, in batch order
MissingOf(names) == SelectSeq(names, LAMBDA n : find_binary(n) = "")

\* the executed positions of the batch operations
Batches == {k \in 1..Len(executed) : OpAt(k).op \in {"Bins", "Sbins"}}

\* ldd can be started
LddRuns == \A b \in DOMAIN ldd : ldd[b] # "unavailable"

\* C13: a batch copy succeeds only when no binary of the batch is missing
\* from the source, and then it does succeed unless ldd cannot be started;
\* whether it succeeds or fails, every binary of the batch that the source
\* has is in staging afterwards, those after a missing one included; and when
\* it fails, the one error names every missing binary of the batch, in batch
\* order, and besides them only binaries whose libraries could not be listed.
C13_BatchCollectsAllMissing ==
    \A k \in Batches :
        /\ executed[k][3] => MissingOf(OpAt(k).arg) = <<>>
        /\ (MissingOf(OpAt(k).arg) = <<>> /\ LddRuns) => executed[k][3]
        /\ \A i \in DOMAIN OpAt(k).arg :
              find_binary(OpAt(k).arg[i]) # ""
                  => staging[OpAt(k).path \o "/" \o OpAt(k).arg[i]].kind # "none"
        /\ ~executed[k][3]
              => /\ pass = "failed"
                 /\ MissingOf(errCtx.missing) = MissingOf(OpAt(k).arg)
                 /\ LddRuns => errCtx.missing = MissingOf(OpAt(k).arg)

\* bash and less are missing, vim between them is not: the batch copied vim
\* and failed naming both
C13_Witness ==
    /\ pass = "failed"
    /\ errCtx.op = bins(ADDITIONAL_BINS)
    /\ errCtx.missing = <<"bash", "less">>
    /\ staging["usr/bin/vim"].kind = "file"

\* C15: every component of the registry declares at least one operation, and
\* no component has a phase before the phase of the component ahead of it, so
\* a pass never comes to a component without operations nor goes back a phase.
C15_RegistryWellFormed ==
    /\ \A i \in DOMAIN registry : Len(Declared(registry[i]).ops) >= 1
    /\ \A i \in DOMAIN registry :
          i > 1 => PhaseNumber(Declared(registry[i - 1]).phase)
                      <= PhaseNumber(Declared(registry[i]).phase)
    /\ pass = "running" => oi <= Len(Declared(registry[ci]).ops)

\* the pass has gone through all thirteen components, the last of phase Final
C15_Witness ==
    /\ pass = "licenses"
    /\ ci = 13
    /\ Len(registry) = 13
    /\ Declared(registry[ci]).phase = "Final"

\* rebuild.rs:157-161  the components of the ISO and where each one is
Upstreams == {"rootfs", "initramfs", "kernel"}

UpstreamPath(u) ==
    CASE u = "rootfs" -> "final_output"
      [] u = "initramfs" -> "initramfs_final"
      [] u = "kernel" -> "vmlinuz"

\* C16: the ISO step of the build rebuilds the ISO exactly when the ISO is
\* missing, or one of the rootfs image, the initramfs and the kernel is
\* missing or was modified after the ISO; otherwise it skips.
C16_IsoRebuildDecision ==
    [][pc = "iso_check" /\ pc' \in {"iso_validate", "iso_skip"} =>
         (pc' = "iso_validate" <=>
             \/ ~fs.iso_final.present
             \/ \E u \in Upstreams :
                   \/ ~fs[UpstreamPath(u)].present
                   \/ u \in fs.after_iso_final)]_vars

\* an ISO is there, every component is there, the initramfs is newer than the
\* ISO, and the ISO is being rebuilt
C16_Witness ==
    /\ pc = "iso_validate"
    /\ pre.file.present
    /\ \A u \in Upstreams : fs[UpstreamPath(u)].present
    /\ "initramfs" \in fs.after_iso_final

\* C17: when a full build has restored the rootfs image or the initramfs from
\* the Artifact Store and an ISO is there, its ISO step never skips: it calls
\* the ISO builder in that same run.
C17_RestoreForcesIsoRebuild ==
    [][(/\ pc = "iso_check"
        /\ restored \cap Kinds # {}
        /\ fs.iso_final.present
        /\ pc' # "idle")
          => pc' = "iso_validate"]_vars

\* the rootfs image came from the store, nothing else is newer than the ISO
\* that was there, and the ISO builder has been called
C17_Witness ==
    /\ pc = "iso_validate"
    /\ pre.file.present
    /\ restored = {"rootfs"}
    /\ fs.after_iso_final = {"rootfs"}
    /\ fs.final_output.dig = fs.rootfs_hash

\* the step of a command at which it decides on a kind, and where it goes
\* when it skips
CheckStep(kind) == IF kind = "rootfs" THEN "rootfs_check" ELSE "initramfs_check"
SkipStep(kind) == IF kind = "rootfs" THEN "rootfs_skip" ELSE "initramfs_skip"

\* C18: once a run has built the rootfs image or the initramfs and recorded the
\* digest of its inputs, a later run that finds the inputs and the artifact as
\* they were decides to skip that kind and does not call its builder.
C18_SecondRunSkips ==
    [][\A k \in Kinds :
          (recorded[k] /\ pc = CheckStep(k) /\ pc' \notin {pc, "idle"})
              => (UpToDate(k) /\ pc' = SkipStep(k))]_vars

\* a later run skips the initramfs that an earlier run built and recorded
C18_Witness ==
    /\ pc = "initramfs_skip"
    /\ recorded.initramfs
    /\ ~fs.initramfs_final.fresh

\* C19: when the producer of a build attempt is about to run, nothing that an
\* earlier attempt left is at its work path: the rootfs work directory is
\* empty and its work image absent, the temporary initramfs archive is absent,
\* the temporary ISO is absent.
C19_ProducerStartsEmpty ==
    /\ pc = "rootfs_components" => (fs.work_staging = Partial /\ ~fs.work_output.present)
    /\ pc = "initramfs_cpio" => ~fs.initramfs_tmp.present
    /\ pc = "iso_xorriso" => ~fs.iso_tmp.present

\* the part of C19 that build_rootfs keeps
C19_RootfsStartsEmpty ==
    pc = "rootfs_components" => (fs.work_staging = Partial /\ ~fs.work_output.present)

\* C20: every image packaged from a staged tree, and every staging tree that
\* was promoted, has the required entries: the rootfs image, the promoted
\* rootfs staging tree and the squashfs image.
C20_PackagedTreeHasRequired ==
    /\ fs.final_output.present => fs.final_output.entries
    /\ fs.final_staging.present => fs.final_staging.entries
    /\ fs.squashfs_final.present => fs.squashfs_final.entries

\* the part of C20 that build_rootfs keeps: verify_staging stands between the
\* pass and the image
C20_RootfsVerified ==
    /\ pc = "rootfs_erofs" => fs.work_staging.entries
    /\ fs.final_output.present => fs.final_output.entries
    /\ fs.final_staging.present => fs.final_staging.entries

----------------------------------------------------------------------------
(* Properties of single operations *)

\* the operation at the current position has just returned Ok, or Err
Returned(kind, ok) ==
    /\ Running(kind)
    /\ Len(executed') = Len(executed) + 1
    /\ executed'[Len(executed')][3] = ok

\* C21: a service-enable that succeeds makes the run-level link to the init
\* script when nothing is at the link path, leaves the staging tree as it is
\* when that very link is there, and applied once more to the tree it left
\* gives that tree again.
C21_EnableIdempotent ==
    [][Returned("OpenrcEnable", TRUE) =>
         LET link == "etc/runlevels/" \o CurrentOp.runlevel \o "/" \o CurrentOp.arg
             script == LinkTo("/etc/init.d/" \o CurrentOp.arg)
         IN  /\ staging[link].kind = "none" => staging'[link] = script
             /\ staging[link] = script => staging' = staging
             /\ enable_openrc_service(staging', CurrentOp.arg,
                                      CurrentOp.runlevel).tree = staging']_vars

\* the same service has been enabled twice in one pass
C21_Witness ==
    /\ Len(registry) >= 2
    /\ registry[1] = "network"
    /\ registry[2] = "network"
    /\ Len(executed) >= 2
    /\ executed[2][3]
    /\ staging["etc/runlevels/boot/networking"] = LinkTo("/etc/init.d/networking")

\* C22: when a directory-with-mode operation has returned Ok, the directory at
\* its path has exactly the requested permission bits, whether the operation
\* made the directory or found it there with other bits.
C22_DirModeSetsBits ==
    [][Returned("DirMode", TRUE) =>
         LET before == staging[CurrentOp.path]
             after == staging'[CurrentOp.path]
         IN  /\ before.kind \in {"none", "dir"} => after.kind = "dir"
             /\ after.kind = "dir" => after.mode = CurrentOp.mode]_vars

\* the directory was there with the sticky bits of an earlier component and
\* has been given the bits of a later one
C22_Witness ==
    /\ Len(registry) >= 2
    /\ registry[1] = "tmp-dirs"
    /\ registry[2] = "tmp-private"
    /\ Len(executed) = 3
    /\ executed[3][3]
    /\ staging["tmp"].kind = "dir"
    /\ staging["tmp"].mode = "700"

\* C23: a single-file copy whose source is absent ends the pass as failed, the
\* error names the path that was looked for, and the staging tree is as it
\* was: nothing is made at the destination.
C23_CopyFileMissingSource ==
    [][(/\ Running("CopyFile")
        /\ CurrentOp.path \notin source
        /\ executed' # executed)
          => /\ pass' = "failed"
             /\ errCtx'.component = CurrentComponent
             /\ errCtx'.missing = <<CurrentOp.path>>
             /\ staging' = staging]_vars

\* a pass failed at the copy of a file the source tree does not have, after
\* other operations had run
C23_Witness ==
    /\ pass = "failed"
    /\ Len(executed) > 1
    /\ errCtx.op = copy_file("etc/passwd")
    /\ "etc/passwd" \notin source
    /\ staging["etc/passwd"].kind = "none"

C25_ErrorNamesComponentAndOp ==
    pass = "failed" =>
        /\ Len(executed) >= 1
        /\ LET last == executed[Len(executed)]
               failing == ComponentOps(registry[last[1]])[last[2]]
           IN  /\ ~last[3]
               /\ errCtx.component = registry[last[1]]
               /\ errCtx.op = failing
               /\ failing.op = "Custom" => errCtx.op.arg = failing.arg

\* a pass failed in the custom operation of the last component
C25_Witness ==
    /\ pass = "failed"
    /\ errCtx.component = "live-final"
    /\ errCtx.op = custom("CopyRecstrap")
    /\ Len(executed) > 1

\* the binary is in the source tree and either an applet link, for which ldd is
\* never asked, or a file for which ldd exits non-zero or prints nothing
TreatedAsStatic(name) ==
    /\ find_binary(name) # ""
    /\ \/ find_binary(name) \in SourceLinks
       \/ ldd[find_binary(name)] \in {"nonzero", "empty"}

\* C26: when the dependency lister exits non-zero or prints nothing for a
\* binary, the binary is treated as statically linked: its copy succeeds and
\* no library is copied.  For a batch: when that holds of every binary of the
\* batch, the batch succeeds, every binary is in place and no library is copied.
C26_NoLibrariesForStatic ==
    [][ /\ Running("Bin") \/ Running("Bins") \/ Running("Sbins")
        /\ Len(executed') = Len(executed) + 1
        /\ LET names == IF CurrentOp.op = "Bin" THEN <<CurrentOp.arg>>
                         ELSE CurrentOp.arg
           IN \A i \in DOMAIN names :
                /\ TreatedAsStatic(names[i])
                /\ staging[CurrentOp.path \o "/" \o names[i]].kind # "dir"
        => /\ executed'[Len(executed')][3]
           /\ pass' # "failed"
           /\ \A l \in LibraryPaths : staging'[l] = staging[l]
           /\ LET names == IF CurrentOp.op = "Bin" THEN <<CurrentOp.arg>>
                            ELSE CurrentOp.arg
              IN \A i \in DOMAIN names :
                   staging'[CurrentOp.path \o "/" \o names[i]].kind
                       \in {"file", "link"} ]_vars

\* busybox, for which ldd exits non-zero, and bash, for which it prints
\* nothing, have been copied from a source tree that has the library, and the
\* staging tree has no library
C26_Witness ==
    /\ Len(registry) = 2
    /\ Len(executed) >= 2
    /\ executed[1][3] /\ executed[2][3]
    /\ ldd["bin/busybox"] = "nonzero"
    /\ ldd["bin/bash"] = "empty"
    /\ staging["usr/bin/busybox"].kind = "file"
    /\ staging["usr/bin/bash"].kind = "file"
    /\ "usr/lib/libncursesw.so.6" \in source
    /\ \A l \in LibraryPaths : staging[l].kind = "none"

\* C27: when the ISO build has returned Ok, the final ISO and the checksum
\* file at its final path are both there, and the checksum is the one written
\* for this ISO by the same build; a newly promoted ISO is never at the final
\* path without it.
C27_IsoTravelsWithChecksum ==
    /\ (pc = "iso_return" /\ ret = "ok")
          => /\ fs.iso_final.present
             /\ fs.iso_final_sum.present
             /\ fs.iso_final_sum.fresh = fs.iso_final.fresh
    /\ (fs.iso_final.present /\ fs.iso_final.fresh /\ pc # "iso_rename_sum")
          => fs.iso_final_sum.present /\ fs.iso_final_sum.fresh

\* the step is the opening of the store by a command that starts
Opens == pc = "idle" /\ pc' # "idle"

\* where the command goes after the sidecar of the kind has been written and
\* the artifact offered to the store
AfterCache(kind) == IF kind = "rootfs" THEN AfterRootfs ELSE AfterInitramfs

\* C28: the Artifact Store is optional.  A command whose store cannot be
\* opened starts as any other and restores nothing; a restore that fails
\* leaves the output it was for as it was and the command goes on to decide
\* on a rebuild; a store that fails puts nothing into the store and the
\* command goes on to its next step.  None of them ends the command or sets
\* an error.
C28_StoreFailureIsNoFailure ==
    [][ /\ (Opens /\ ~StoreOpen')
            => /\ pc' = IF cmd = "build" THEN "resolve_kernel" ELSE "restore"
               /\ fs' = fs
        /\ (pc = "restore" /\ pc' # pc)
            => /\ pc' = CheckStep(IF cmd = "initramfs" THEN "initramfs" ELSE "rootfs")
               /\ ret' = ret /\ failStage' = failStage
               /\ ~StoreOpen => fs' = fs
               /\ "restore" \in store'.warned
                     => \E k \in KindsOf(cmd) : fs'[ArtifactOf(k)] = fs[ArtifactOf(k)]
        /\ \A k \in Kinds :
              (pc = CacheStep(k) /\ pc' # pc /\ store'.warned # store.warned)
                  => /\ store'.warned = store.warned \cup {"store"}
                     /\ store'.put = store.put
                     /\ pc' = AfterCache(k)
                     /\ fs'[ArtifactOf(k)] = Old(fs[ArtifactOf(k)])
                           \/ fs'[ArtifactOf(k)] = fs[ArtifactOf(k)] ]_vars

\* a full build could not restore the rootfs image, built it, could not store
\* it, and has gone on to build the ISO
C28_Witness ==
    /\ cmd = "build"
    /\ store.warned = {"restore", "store"}
    /\ store.put = {}
    /\ pc = "iso_return"
    /\ ret = "ok"
    /\ restored = {}
    /\ recorded.rootfs

\* C30: every artifact that a command puts into the Artifact Store goes there
\* under the digest of the inputs it was built from, also when the sidecar was
\* not written after the rebuild and still holds an older digest.  Stated for
\* the artifacts the run has just built from the inputs as they still are.
C30_StoredUnderOwnFingerprint ==
    [][\A k \in Kinds :
          (/\ pc = CacheStep(k)
           /\ pc' # pc
           /\ fs[ArtifactOf(k)].fresh
           /\ fs[ArtifactOf(k)].dig = inputs[k])
              => \A e \in store'.put \ store.put : e.key = e.dig]_vars

\* C29: kernel_needs_compile answers false when AcornOS has a kernel build and
\* the sidecar holds the digest of the kernel inputs as they are, and also
\* when AcornOS has no kernel build and LevitateOS has one.
C29_NoCompileWhenKernelAvailable ==
    pc = "kernel_checked" =>
        /\ (/\ fs.kernel_build.present
            /\ hash_files("kernel") \in Digests
            /\ fs.kernel_hash = hash_files("kernel")) => ret = "false"
        /\ (~fs.kernel_build.present /\ fs.leviso_kernel_build.present)
               => ret = "false"

\* C31: whenever a command decides to skip a kind, the artifact that is there
\* was built from inputs whose digest is the current one, also when an input
\* was changed while the build that made it was running.  Stated for the
\* artifacts that a run built and recorded itself, untouched since.
C31_SkipOnlyFreshArtifact ==
    [][\A k \in Kinds :
          (pc = CheckStep(k) /\ pc' = SkipStep(k) /\ recorded[k] /\ ~gap[k])
              => fs[ArtifactOf(k)].dig = hash_files(k)]_vars

\* C32: at every step, also where build_rootfs has returned or was
\* interrupted, the final staged tree and the final image, when both are
\* there, were promoted by the same build attempt: one is never of the attempt
\* that is running or ran last while the other is of an earlier one.
C32_TreeAndImageOfOneAttempt ==
    (fs.final_staging.present /\ fs.final_output.present)
        => fs.final_staging.fresh = fs.final_output.fresh

\* C33: whenever the full build command or the ISO command has invoked the ISO
\* builder, the rootfs image and the initramfs that the ISO builder reads are
\* there (the kernel is read from the extracted rootfs, which no command
\* step provides, so it is left out of this statement).
C33_IsoInputsPresentWhenInvoked ==
    (pc = "iso_validate" /\ cmd \in {"build", "iso"})
        => (fs.squashfs_final.present /\ fs.initramfs_final.present)

----------------------------------------------------------------------------
(* artifact/initramfs.rs: copy_busybox over several runs *)

\* how many initramfs builds are followed
MaxRuns == 3

\* what a file holds, by its SHA-256: the bytes of the pinned digest, other bytes
Contents == {"pinned", "other"}

\* initramfs.rs:75-82  BUSYBOX_URL unless BUSYBOX_URL is set in the environment
Urls == {"default", "custom"}

\* initramfs.rs:45-69  verify_sha256: the digest of the file against the expected one
verify_sha256(content) == content = "pinned"

\* downloads/ is empty and no initramfs tree has been made
InitBusybox ==
    /\ busybox = [pc |-> "idle", url |-> "default", cache |-> "none",
                  origin |-> "none", dst |-> "none", ret |-> "none", run |-> 0,
                  rejected |-> FALSE]
    /\ boot = NoBoot
    /\ parse = NoParse
    /\ store = NoStore
    /\ registry = <<>>
    /\ source = {}
    /\ staging = <<>>
    /\ ci = 1
    /\ oi = 1
    /\ pass = "done"
    /\ executed = <<>>
    /\ errCtx = [component |-> "", op |-> ""]
    /\ flushed = 0
    /\ tools = {}
    /\ ldd = NoLdd
    /\ first = NoFirst
    /\ cmd = "initramfs"
    /\ fs = InitFs
    /\ inputs = [k \in Kinds |-> "dA"]
    /\ pc = "initramfs_prepare"
    /\ ret = "none"
    /\ failStage = "none"
    /\ pre = NoPre
    /\ gap = [k \in Kinds |-> FALSE]
    /\ restored = {}
    /\ recorded = [k \in Kinds |-> FALSE]

BusyboxFrame == UNCHANGED <<boot, parse, buildVars, passVars>>

\* initramfs.rs:117-133, 181-189  a build has removed the old initramfs tree
\* and calls copy_busybox; the cache is looked up
copy_busybox_start ==
    /\ busybox.pc = "idle"
    /\ busybox.run < MaxRuns
    /\ \E url \in Urls :
        busybox' = [busybox EXCEPT !.url = url,
                                   !.dst = "none",
                                   !.ret = "none",
                                   !.run = @ + 1,
                                   !.pc = IF busybox.cache = "none"
                                          THEN "download" ELSE "copy"]
    /\ BusyboxFrame

\* initramfs.rs:190-200  curl -L -o <cache> <url>: it fails, with or without
\* bytes written to the cache, or it ends well with whatever the server sent
copy_busybox_download ==
    /\ busybox.pc = "download"
    /\ \/ \E left \in {"none", "other"} :
            busybox' = [busybox EXCEPT !.cache = left,
                                       !.origin = IF left = "none" THEN "none"
                                                  ELSE busybox.url,
                                       !.ret = "err",
                                       !.pc = "return"]
       \/ \E got \in Contents :
            busybox' = [busybox EXCEPT !.cache = got,
                                       !.origin = busybox.url,
                                       !.pc = IF busybox.url = "default"
                                              THEN "verify" ELSE "copy"]
    /\ BusyboxFrame

\* initramfs.rs:202-209  the checksum is verified for the default URL only
copy_busybox_verify ==
    /\ busybox.pc = "verify"
    /\ IF verify_sha256(busybox.cache)
       THEN busybox' = [busybox EXCEPT !.pc = "copy"]
       ELSE busybox' = [busybox EXCEPT !.ret = "err", !.rejected = TRUE,
                                       !.pc = "return"]
    /\ BusyboxFrame

\* initramfs.rs:212-232  fs::copy(&busybox_cache, &busybox_dst), mode, links
copy_busybox_copy ==
    /\ busybox.pc = "copy"
    /\ \/ busybox' = [busybox EXCEPT !.dst = busybox.cache, !.ret = "ok",
                                      !.pc = "return"]
       \/ busybox' = [busybox EXCEPT !.ret = "err", !.pc = "return"]
    /\ BusyboxFrame

\* initramfs.rs:133  copy_busybox(..)? has returned to the build
copy_busybox_return ==
    /\ busybox.pc = "return"
    /\ busybox' = [busybox EXCEPT !.pc = "idle"]
    /\ BusyboxFrame

NextBusybox ==
    \/ copy_busybox_start
    \/ copy_busybox_download
    \/ copy_busybox_verify
    \/ copy_busybox_copy
    \/ copy_busybox_return

SpecBusybox == InitBusybox /\ [][NextBusybox]_vars

\* C34: a busybox that is in the initramfs tree and was downloaded from the
\* default URL has the pinned SHA-256, also in a build that follows one whose
\* download was stored in the cache and then failed verification.
C34_OnlyPinnedBusyboxCopied ==
    (busybox # NoBusybox /\ busybox.rejected /\ busybox.dst # "none"
        /\ busybox.origin = "default")
        => busybox.dst = "pinned"

\* C35: when a service-enable has returned Ok, the path
\* etc/runlevels/<runlevel>/<service> of the staging tree is a symbolic link
\* to /etc/init.d/<service>, whatever was at that path before.
C35_EnableLeavesLinkToScript ==
    [][Returned("OpenrcEnable", TRUE) =>
         staging'["etc/runlevels/" \o CurrentOp.runlevel \o "/" \o CurrentOp.arg]
             = LinkTo("/etc/init.d/" \o CurrentOp.arg)]_vars

\* the permission bits give execute to owner, group and others
Executable(mode) == mode \in {"755", "711", "555", "111"}

\* the staging tree after the copy of one binary into a directory
CopiedAs(name, dest) ==
    LET src == find_binary(name)
        dst == dest \o "/" \o name
    IN  IF src \in SourceLinks
        THEN staging'[dst] = LinkTo("/bin/busybox")
        ELSE /\ staging'[dst].kind = "file"
             /\ staging'[dst].content = src
             /\ Executable(staging'[dst].mode)

\* C36: when the copy of a binary has returned Ok, the destination is a link
\* with the target of the source link and without content when the entry found
\* in the source is a link, and else a regular file with the bytes of the
\* source and the executable bits set, whatever file or link was there.
C36_BinaryCopiedAsLinkOrExecutable ==
    [][/\ Returned("Bin", TRUE) => CopiedAs(CurrentOp.arg, CurrentOp.path)
       /\ (Returned("Bins", TRUE) \/ Returned("Sbins", TRUE)) =>
              \A i \in DOMAIN CurrentOp.arg :
                  CopiedAs(CurrentOp.arg[i], CurrentOp.path)]_vars

\* a pass has ended in which a real binary was copied over an applet link and
\* another binary, without executable bits in the source, was copied too
C36_Witness ==
    /\ pass = "done"
    /\ registry = <<"applets", "utilities">>
    /\ find_binary("less") = "usr/bin/less"
    /\ staging["usr/bin/less"].kind = "file"
    /\ staging["usr/bin/vim"].mode = "755"

\* C37: the last writer wins across the operations of NETWORK: when the
\* component has run, etc/network/interfaces of the staging tree is the file
\* of the source tree when the source tree has one (the tree copy runs after
\* the file write), and the default of the component otherwise.
C37_NetworkLastWriterWins ==
    [][(Returned("CopyTree", TRUE) /\ CurrentOp.path = "etc/network") =>
          /\ staging["etc/network/interfaces"].content = "NETWORK_INTERFACES"
          /\ staging'["etc/network/interfaces"].kind = "file"
          /\ staging'["etc/network/interfaces"].content =
                 IF "etc/network/interfaces" \in source
                 THEN "SOURCE" ELSE "NETWORK_INTERFACES"]_vars

\* NETWORK has run over a source tree with an interfaces file, and the file
\* of the staging tree is that one
C37_Witness ==
    /\ pass = "done"
    /\ registry = <<"network-files", "network">>
    /\ "etc/network/interfaces" \in source
    /\ staging["etc/network/interfaces"].content = "SOURCE"

----------------------------------------------------------------------------
(* qemu.rs: test_iso and run_functional_verification *)

\* the overall timeout and the stall timeout (30 s), in units of the clock
Timeout == 4
StallTimeout == 2

\* what the watch loop looks for in a line of the serial console: one of
\* FAILURE_PATTERNS, the ___SHELL_READY___ marker, "login:"
ConsoleLines == [fail : BOOLEAN, marker : BOOLEAN, login : BOOLEAN]

\* the boot test is called
InitBoot ==
    /\ boot = [pc |-> "idle", elapsed |-> 0, quiet |-> 0, ret |-> "none",
               why |-> "", sawFailure |-> FALSE, sawMarker |-> FALSE,
               sawLogin |-> FALSE, verified |-> {}]
    /\ busybox = NoBusybox
    /\ parse = NoParse
    /\ store = NoStore
    /\ registry = <<>>
    /\ source = {}
    /\ staging = <<>>
    /\ ci = 1
    /\ oi = 1
    /\ pass = "done"
    /\ executed = <<>>
    /\ errCtx = [component |-> "", op |-> ""]
    /\ flushed = 0
    /\ tools = {}
    /\ ldd = NoLdd
    /\ first = NoFirst
    /\ cmd = "test"
    /\ fs = InitFs
    /\ inputs = [k \in Kinds |-> "dA"]
    /\ pc = "idle"
    /\ ret = "none"
    /\ failStage = "none"
    /\ pre = NoPre
    /\ gap = [k \in Kinds |-> FALSE]
    /\ restored = {}
    /\ recorded = [k \in Kinds |-> FALSE]

BootFrame == UNCHANGED <<busybox, parse, buildVars, passVars>>

\* bail!(..) and the ? operator: test_iso returns Err
BootErr(b, why) == [b EXCEPT !.pc = "returned", !.ret = "err", !.why = why]

\* qemu.rs:246-330  the ISO is looked up, OVMF found, QEMU spawned, the reader
\* thread started and the clocks set
test_iso_start ==
    /\ boot.pc = "idle"
    /\ \/ boot' = BootErr(boot, "setup")
       \/ boot' = [boot EXCEPT !.pc = "watch"]
    /\ BootFrame

\* qemu.rs:346-372  the head of the loop: overall timeout, then stall
test_iso_check ==
    /\ boot.pc = "watch"
    /\ boot' = IF boot.elapsed > Timeout THEN BootErr(boot, "timeout")
               ELSE IF boot.quiet > StallTimeout THEN BootErr(boot, "stall")
               ELSE [boot EXCEPT !.pc = "recv"]
    /\ BootFrame

\* qemu.rs:376-445  Ok(line): the failure patterns first, then the marker,
\* then the other success patterns
on_line(b, line) ==
    LET seen == [b EXCEPT !.quiet = 0,
                          !.sawFailure = @ \/ line.fail,
                          !.sawMarker = @ \/ line.marker,
                          !.sawLogin = @ \/ line.login]
    IN  IF line.fail THEN BootErr(seen, "pattern")
        ELSE IF line.marker THEN [seen EXCEPT !.pc = "verify_uefi"]
        ELSE IF line.login THEN BootErr(seen, "login")
        ELSE [seen EXCEPT !.pc = "watch"]

\* qemu.rs:374-455  rx.recv_timeout(100 ms): a line that was waiting or came
\* while the clock moved on, nothing for the whole wait, or the reader thread
\* has ended because QEMU closed its output
test_iso_recv ==
    /\ boot.pc = "recv"
    /\ \/ \E line \in ConsoleLines, d \in {0, 1} :
            boot' = on_line([boot EXCEPT !.elapsed = @ + d], line)
       \/ boot' = [boot EXCEPT !.elapsed = @ + 1, !.quiet = @ + 1, !.pc = "watch"]
       \/ boot' = BootErr(boot, "disconnected")
    /\ BootFrame

\* qemu.rs:480-503  send_cmd, then wait_response collects every line of the
\* window; no line is matched against the failure patterns here
Responded(b, failLine) == [b EXCEPT !.sawFailure = @ \/ failLine]

\* qemu.rs:508-537  Verification 1: a line that is UEFI_YES, none that is UEFI_NO
verify_uefi ==
    /\ boot.pc = "verify_uefi"
    /\ \/ boot' = BootErr(boot, "stdin")
       \/ \E yes \in BOOLEAN, no \in BOOLEAN, failLine \in BOOLEAN :
            LET b == Responded(boot, failLine) IN
            boot' = IF no /\ ~yes THEN BootErr(b, "uefi")
                    ELSE IF ~yes /\ ~no THEN BootErr(b, "uefi-inconclusive")
                    ELSE [b EXCEPT !.pc = "verify_pid1", !.verified = @ \cup {"uefi"}]
    /\ BootFrame

\* qemu.rs:542-562  Verification 2: a line that contains "init"
verify_pid1 ==
    /\ boot.pc = "verify_pid1"
    /\ \/ boot' = BootErr(boot, "stdin")
       \/ \E init \in BOOLEAN, failLine \in BOOLEAN :
            LET b == Responded(boot, failLine) IN
            boot' = IF ~init THEN BootErr(b, "pid1")
                    ELSE [b EXCEPT !.pc = "verify_runlevel",
                                   !.verified = @ \cup {"pid1"}]
    /\ BootFrame

\* qemu.rs:567-588  Verification 3: the first number of the response, 0 without one
verify_runlevel ==
    /\ boot.pc = "verify_runlevel"
    /\ \/ boot' = BootErr(boot, "stdin")
       \/ \E started_count \in {0, 3}, failLine \in BOOLEAN :
            LET b == Responded(boot, failLine) IN
            boot' = IF started_count = 0 THEN BootErr(b, "runlevel")
                    ELSE [b EXCEPT !.pc = "verify_crashed",
                                   !.verified = @ \cup {"runlevel"}]
    /\ BootFrame

\* qemu.rs:593-633  Verification 4: the count of crashed services, then Ok(())
verify_crashed ==
    /\ boot.pc = "verify_crashed"
    /\ \/ boot' = BootErr(boot, "stdin")
       \/ \E crashed_count \in {0, 2}, failLine \in BOOLEAN :
            LET b == Responded(boot, failLine) IN
            boot' = IF crashed_count > 0 THEN BootErr(b, "crashed")
                    ELSE [b EXCEPT !.pc = "returned", !.ret = "ok",
                                   !.verified = @ \cup {"crashed"}]
    /\ BootFrame

NextBoot ==
    \/ test_iso_start
    \/ test_iso_check
    \/ test_iso_recv
    \/ verify_uefi
    \/ verify_pid1
    \/ verify_runlevel
    \/ verify_crashed

SpecBoot == InitBoot /\ [][NextBoot]_vars

\* C38: a line that matches a failure pattern and is read by the boot test
\* always ends the test with failure: the test never returns success after
\* it has read such a line.
C38_FailurePatternEndsInFailure ==
    (boot # NoBoot /\ boot.sawFailure) => boot.ret # "ok"

----------------------------------------------------------------------------
(* component/executor.rs: extract_library_path on lines of ldd output *)

\* the longest line, and the characters lines are made of: those of the
\* arrow, the start of an absolute path, white space, any other character
MaxLine == 6
LineChars == {"=", ">", "/", " ", "l"}

\* executor.rs:255-257  a line of the output is handed to extract_library_path
InitParse ==
    /\ parse \in [line : UNION {[1..n -> LineChars] : n \in 0..MaxLine},
                   done : {FALSE}, out : {None}]
    /\ busybox = NoBusybox
    /\ boot = NoBoot
    /\ store = NoStore
    /\ registry = <<>>
    /\ source = {}
    /\ staging = <<>>
    /\ ci = 1
    /\ oi = 1
    /\ pass = "running"
    /\ executed = <<>>
    /\ errCtx = [component |-> "", op |-> ""]
    /\ flushed = 0
    /\ tools = {}
    /\ ldd = NoLdd
    /\ first = NoFirst
    /\ cmd = "rootfs"
    /\ fs = [InitFs EXCEPT !.work_staging = Partial]
    /\ inputs = [k \in Kinds |-> "dA"]
    /\ pc = "rootfs_components"
    /\ ret = "none"
    /\ failStage = "none"
    /\ pre = NoPre
    /\ gap = [k \in Kinds |-> FALSE]
    /\ restored = {}
    /\ recorded = [k \in Kinds |-> FALSE]

\* executor.rs:257  if let Some(path) = extract_library_path(line)
parse_line ==
    /\ ~parse.done
    /\ parse' = [parse EXCEPT !.done = TRUE,
                              !.out = extract_library_path(parse.line)]
    /\ UNCHANGED <<busybox, boot, buildVars, passVars>>

SpecParse == InitParse /\ [][parse_line]_vars

\* "=>" stands at position i of the line
ArrowAt(line, i) == i < Len(line) /\ line[i] = "=" /\ line[i + 1] = ">"

\* positions a..b hold the first white-space-delimited token after the first "=>"
FirstTokenAfterArrow(line, a, b) ==
    \E i \in DOMAIN line :
        /\ ArrowAt(line, i)
        /\ \A j \in 1..(i - 1) : ~ArrowAt(line, j)
        /\ i + 2 <= a
        /\ a <= b
        /\ \A k \in (i + 2)..(a - 1) : line[k] = " "
        /\ \A k \in a..b : line[k] # " "
        /\ b = Len(line) \/ line[b + 1] = " "

\* C39: extract_library_path returns the first white-space-delimited token
\* after "=>" exactly when the line contains "=>" and that token starts with
\* "/"; for every other line it returns nothing.
C39_PathIsFirstTokenAfterArrow ==
    (parse # NoParse /\ parse.done) =>
        LET line == parse.line
            tokens == {ab \in (DOMAIN line) \X (DOMAIN line) :
                          /\ FirstTokenAfterArrow(line, ab[1], ab[2])
                          /\ line[ab[1]] = "/"}
        IN  IF tokens = {} THEN parse.out = None
            ELSE \A ab \in tokens : parse.out = SubSeq(line, ab[1], ab[2])

\* a line with a library name, the arrow and an absolute path has been parsed
C39_Witness ==
    /\ parse # NoParse
    /\ parse.done
    /\ parse.line = <<"l", "=", ">", " ", "/", "l">>
    /\ parse.out = <<"/", "l">>

====
